---- MODULE Spec2Model ----
(***************************************************************************)
(* Model of the gene-metrics engine of inStrain (inStrain/GeneProfile.py): *)
(* the batch scheduler (iterate_commands), the worker pool                 *)
(* (gene_profile_worker, profile_genes_wrapper, profile_genes) and the     *)
(* result aggregation of calculate_gene_metrics.                           *)
(*                                                                         *)
(* Estimated runtimes are Python floats (IEEE-754 binary64).  They are     *)
(* modelled exactly: a float is the natural number value * 2^FracBits,     *)
(* held as a little-endian sequence of limbs in base LimbBase, and every   *)
(* arithmetic operation rounds to 53 significant bits, ties to even.       *)
(***************************************************************************)
EXTENDS Integers, Sequences, FiniteSets, Bags, TLC

(***************************************************************************)
(* Bounds of the model.                                                    *)
(***************************************************************************)
MaxProcesses == 3
MaxGenes == 3
BigGenes == 6001
MaxPos == 2
MaxRows == 3
MaxScaffoldLength == 12
MaxWindow == 4

(***************************************************************************)
(* Natural numbers of arbitrary size (TLC integers are 32 bits wide).      *)
(***************************************************************************)
LimbBase == 32768
LimbBits == 15
FracBits == 70
MantissaBits == 53

Pow2(n) == IF n = 0 THEN 1 ELSE IF n = 1 THEN 2 ELSE IF n = 2 THEN 4
           ELSE IF n = 3 THEN 8 ELSE IF n = 4 THEN 16 ELSE IF n = 5 THEN 32
           ELSE IF n = 6 THEN 64 ELSE IF n = 7 THEN 128 ELSE IF n = 8 THEN 256
           ELSE IF n = 9 THEN 512 ELSE IF n = 10 THEN 1024
           ELSE IF n = 11 THEN 2048 ELSE IF n = 12 THEN 4096
           ELSE IF n = 13 THEN 8192 ELSE IF n = 14 THEN 16384 ELSE 32768

RECURSIVE BnNorm(_)
BnNorm(a) == IF a = <<>> THEN <<>>
             ELSE IF a[Len(a)] = 0 THEN BnNorm(SubSeq(a, 1, Len(a) - 1))
             ELSE a

RECURSIVE BnAddC(_, _, _)
BnAddC(a, b, c) ==
    IF a = <<>> /\ b = <<>> THEN (IF c = 0 THEN <<>> ELSE <<c>>)
    ELSE LET x == IF a = <<>> THEN 0 ELSE Head(a)
             y == IF b = <<>> THEN 0 ELSE Head(b)
             s == x + y + c
         IN  <<s % LimbBase>> \o
             BnAddC(IF a = <<>> THEN <<>> ELSE Tail(a),
                    IF b = <<>> THEN <<>> ELSE Tail(b), s \div LimbBase)

BnAdd(a, b) == BnNorm(BnAddC(a, b, 0))

RECURSIVE BnSubC(_, _, _)
BnSubC(a, b, c) ==
    IF a = <<>> THEN <<>>
    ELSE LET y == IF b = <<>> THEN 0 ELSE Head(b)
             d == Head(a) - y - c
         IN  <<IF d < 0 THEN d + LimbBase ELSE d>> \o
             BnSubC(Tail(a), IF b = <<>> THEN <<>> ELSE Tail(b),
                    IF d < 0 THEN 1 ELSE 0)

\* a - b for a >= b
BnSub(a, b) == BnNorm(BnSubC(a, b, 0))

RECURSIVE BnMulC(_, _, _)
BnMulC(a, k, c) ==
    IF a = <<>> THEN (IF c = 0 THEN <<>> ELSE <<c>>)
    ELSE LET s == Head(a) * k + c
         IN  <<s % LimbBase>> \o BnMulC(Tail(a), k, s \div LimbBase)

\* a * k for 0 <= k < LimbBase
BnMulSmall(a, k) == BnNorm(BnMulC(a, k, 0))

RECURSIVE BnDivC(_, _, _)
BnDivC(a, d, r) ==
    IF a = <<>> THEN [q |-> <<>>, r |-> r]
    ELSE LET cur == r * LimbBase + a[Len(a)]
             rest == BnDivC(SubSeq(a, 1, Len(a) - 1), d, cur % d)
         IN  [q |-> rest.q \o <<cur \div d>>, r |-> rest.r]

\* quotient and remainder of a by d, 0 < d < LimbBase
BnDivSmall(a, d) == LET x == BnDivC(a, d, 0) IN [q |-> BnNorm(x.q), r |-> x.r]

RECURSIVE BnCmp(_, _)
BnCmp(a, b) ==
    IF Len(a) # Len(b) THEN (IF Len(a) < Len(b) THEN -1 ELSE 1)
    ELSE IF a = <<>> THEN 0
    ELSE IF a[Len(a)] # b[Len(b)] THEN (IF a[Len(a)] < b[Len(b)] THEN -1 ELSE 1)
    ELSE BnCmp(SubSeq(a, 1, Len(a) - 1), SubSeq(b, 1, Len(b) - 1))

BnGE(a, b) == BnCmp(a, b) >= 0
BnLE(a, b) == BnCmp(a, b) <= 0
BnGT(a, b) == BnCmp(a, b) > 0

RECURSIVE IntBitLen(_)
IntBitLen(n) == IF n = 0 THEN 0 ELSE 1 + IntBitLen(n \div 2)

BnBitLen(a) == IF a = <<>> THEN 0
               ELSE (Len(a) - 1) * LimbBits + IntBitLen(a[Len(a)])

\* a * 2^s
BnShl(a, s) ==
    IF a = <<>> THEN <<>>
    ELSE [i \in 1..(s \div LimbBits) |-> 0] \o BnMulSmall(a, Pow2(s % LimbBits))

\* floor(a / 2^s)
BnShr(a, s) ==
    LET k == s \div LimbBits
    IN  IF k >= Len(a) THEN <<>>
        ELSE BnDivSmall(SubSeq(a, k + 1, Len(a)), Pow2(s % LimbBits)).q

BnIsOdd(a) == a # <<>> /\ a[1] % 2 = 1

(***************************************************************************)
(* IEEE-754 binary64 rounding (round to nearest, ties to even) of the      *)
(* exact value a (+ a positive amount below one unit when sticky).         *)
(***************************************************************************)
Round53(a, sticky) ==
    LET L == BnBitLen(a)
    IN  IF L <= MantissaBits THEN a
        ELSE LET s == L - MantissaBits
                 q == BnShr(a, s)
                 r == BnSub(a, BnShl(q, s))
                 half == BnShl(<<1>>, s - 1)
                 c == BnCmp(r, half)
                 up == \/ c > 0
                       \/ c = 0 /\ (sticky \/ BnIsOdd(q))
             IN  BnShl(IF up THEN BnAdd(q, <<1>>) ELSE q, s)

FAdd(a, b) == Round53(BnAdd(a, b), FALSE)
FDiv(a, d) == LET x == BnDivSmall(a, d) IN Round53(x.q, x.r # 0)
FMin(a, b) == IF BnLE(a, b) THEN a ELSE b

\* the float 0.0 and the float of a small integer
FZero == <<>>
FInt(n) == BnShl(IF n = 0 THEN <<>> ELSE <<n>>, FracBits)

\* the binary64 nearest to 0.01: 0x147AE147AE147B * 2^-59
SLOPE_CONSTANT == <<22528, 24903, 10485, 7864, 10>>
\* the per-batch ceiling, in seconds
TargetCeiling == 60

\* calc_estimated_runtime: pairs * SLOPE_CONSTANT
calc_estimated_runtime(pairs) == Round53(BnMulSmall(SLOPE_CONSTANT, pairs), FALSE)


(***************************************************************************)
(* Inputs.  Scaffold names in ScaffoldOrder are listed in ascending string *)
(* order, the order in which Gdb.groupby('scaffold') visits its groups.    *)
(* The gene table Gdb is held as scaffold -> number of gene rows (the only *)
(* thing the scheduler reads); gene i of scaffold s is <<s, i>>.           *)
(***************************************************************************)
Sentinel == "FailureScaffoldHeaderTesting"
ScaffoldOrder == <<"A1", "FailureScaffoldHeaderTesting", "S1">>
Scaffolds == {ScaffoldOrder[i] : i \in 1..Len(ScaffoldOrder)}

SchedGeneCounts == (0..MaxGenes) \cup {BigGenes}
PoolGeneCounts == {1, 2}
ProcessCounts == 1..MaxProcesses

VARIABLES
    Gdb,                  \* gene table: scaffold -> number of genes
    IS_covt_keys,         \* IS._get_covt_keys(): scaffolds in the profile store
    covTs,                \* scaffolds with an entry in the coverage store
    clonTs,               \* scaffolds with an entry in the diversity store
    CumulativeSNVtable,   \* scaffolds with variant records
    processes,            \* kwargs['processes']
    pc,                   \* position of calculate_gene_metrics
    scaffolds_to_profile,
    runtime_sum,          \* sum of the estimated runtimes (line 532)
    SECONDS,              \* per-batch target of iterate_commands
    cmd_groups,
    cmd_buffer,           \* gene_cmd_queue: items put, not yet written to the pipe
    cmd_pipe,             \* gene_cmd_queue: items a get() can see
    worker,               \* worker id -> [pc, cmds, GPs]
    res_buffer,           \* gene_result_queue: per-producer unflushed items
    res_pipe,             \* gene_result_queue: items a get() can see
    recieved_profiles,
    GeneProfiles,
    name2result,
    error,                \* exception raised by calculate_gene_metrics, if any
    dequeued,             \* history: bag of batches taken from gene_cmd_queue
    published,            \* history: bag of result lists put on gene_result_queue
    received,             \* history: bag of result lists the aggregator got
    gdb,                  \* profile_genes: the gene rows of the scaffold
    covT,                 \* covTs[scaffold]: threshold -> position -> depth
    clonT,                \* clonTs[scaffold]: threshold -> position -> clonality
    Ldb,                  \* the variant records of the scaffold, sorted by mm
    gene2sequence,        \* gene -> stored nucleotide sequence
    rLen,                 \* IS.get('read_report')['mean_pair_length'][0]
    ANI_level,            \* the ANI_level argument of get_gene_info
    stage,                \* position of profile_genes / get_gene_info
    cov_mms,              \* pairs yielded by iterate_covT_mms
    clon_mms,             \* pairs yielded by iterate_clonT_mms
    cdb,                  \* result of calc_gene_coverage
    cldb,                 \* result of calc_gene_clonality
    ldb,                  \* result of calc_gene_snp_density
    Sdb,                  \* Characterize_SNPs_wrapper: the filtered variant list
    sdb,                  \* result of Characterize_SNPs_wrapper
    snp_locals,           \* characterize_SNPs: the locals of each coding row
    gene_info,            \* result of get_gene_info
    sLen,                 \* iterate_splits: the length of the scaffold
    WINDOW_LEN,           \* iterate_splits: args.window_length
    numberChunks,
    chunkLen,
    split_start,          \* iterate_splits: start
    split_end,            \* iterate_splits: end
    split_number,         \* iterate_splits: i
    Fdb,                  \* the splits yielded so far, as rows of the table
    split_pc              \* position of iterate_splits

inputs == <<Gdb, IS_covt_keys, covTs, clonTs, CumulativeSNVtable, processes>>
sched == <<scaffolds_to_profile, runtime_sum, SECONDS, cmd_groups>>
queues == <<cmd_buffer, cmd_pipe, res_buffer, res_pipe>>
aggr == <<recieved_profiles, GeneProfiles, name2result, error>>
history == <<dequeued, published, received>>
scaffold_in == <<gdb, covT, clonT, Ldb, gene2sequence, rLen, ANI_level>>
scaffold_out == <<cov_mms, clon_mms, cdb, cldb, ldb, Sdb, sdb, snp_locals, gene_info>>
gene_level == <<scaffold_in, stage, scaffold_out>>
pool == <<inputs, pc, sched, queues, worker, aggr, history>>
splitter == <<sLen, WINDOW_LEN, numberChunks, chunkLen, split_start, split_end,
              split_number, Fdb, split_pc>>
vars == <<pool, gene_level, splitter>>

(***************************************************************************)
(* Batch scheduler.                                                        *)
(***************************************************************************)
\* a Command carries the scaffold; cmd.arguments is the one shared kwargs
Command(scaffold) == [scaffold |-> scaffold]

\* the iteration orders of a Python set
SetOrders(S) ==
    {o \in [1..Cardinality(S) -> S] : \A i, j \in 1..Cardinality(S) : o[i] = o[j] => i = j}

\* sum(calc_estimated_runtime(s2g[scaffold]) for scaffold in order)
RECURSIVE SumRuntime(_, _)
SumRuntime(order, s2g) ==
    IF Len(order) = 0 THEN FZero
    ELSE FAdd(SumRuntime(SubSeq(order, 1, Len(order) - 1), s2g),
              calc_estimated_runtime(s2g[order[Len(order)]]))

\* mutant: max instead of min
TargetSecondsMax(total, procs) ==
    IF BnGE(FInt(TargetCeiling), FDiv(total, procs + 1))
    THEN FInt(TargetCeiling) ELSE FDiv(total, procs + 1)

\* SECONDS = min(60, total / (processes + 1))
TargetSeconds(total, procs) == FMin(FInt(TargetCeiling), FDiv(total, procs + 1))

\* Gdb.groupby('scaffold'): the scaffolds that have gene rows, ascending
GroupKeys(s2g) == SelectSeq(ScaffoldOrder, LAMBDA s : s2g[s] > 0)

\* mutant: a batch is cut only when its cost exceeds the target
RECURSIVE CommandLoopStrict(_, _, _, _, _, _, _)
CommandLoopStrict(keys, toProfile, s2g, target, cmds, seconds, yielded) ==
    IF keys = <<>> THEN Append(yielded, cmds)
    ELSE IF Head(keys) \notin toProfile
         THEN CommandLoopStrict(Tail(keys), toProfile, s2g, target, cmds, seconds, yielded)
         ELSE LET sec2 == FAdd(seconds, calc_estimated_runtime(s2g[Head(keys)]))
                  cmds2 == Append(cmds, Command(Head(keys)))
              IN  IF BnGT(sec2, target)
                  THEN CommandLoopStrict(Tail(keys), toProfile, s2g, target,
                                         <<>>, FZero, Append(yielded, cmds2))
                  ELSE CommandLoopStrict(Tail(keys), toProfile, s2g, target,
                                         cmds2, sec2, yielded)

\* the for loop of iterate_commands and its final yield
RECURSIVE CommandLoop(_, _, _, _, _, _, _)
CommandLoop(keys, toProfile, s2g, target, cmds, seconds, yielded) ==
    IF keys = <<>> THEN Append(yielded, cmds)
    ELSE IF Head(keys) \notin toProfile
         THEN CommandLoop(Tail(keys), toProfile, s2g, target, cmds, seconds, yielded)
         ELSE LET sec2 == FAdd(seconds, calc_estimated_runtime(s2g[Head(keys)]))
                  cmds2 == Append(cmds, Command(Head(keys)))
              IN  IF BnGE(sec2, target)
                  THEN CommandLoop(Tail(keys), toProfile, s2g, target,
                                   <<>>, FZero, Append(yielded, cmds2))
                  ELSE CommandLoop(Tail(keys), toProfile, s2g, target,
                                   cmds2, sec2, yielded)

Range(seq) == {seq[i] : i \in 1..Len(seq)}

\* mutant: the membership test of line 537 is missing
iterate_commands_unfiltered(order, s2g, procs) ==
    CommandLoop(GroupKeys(s2g), Scaffolds, s2g,
                TargetSeconds(SumRuntime(order, s2g), procs), <<>>, FZero, <<>>)

\* the list of batches yielded by iterate_commands; order lists the set
\* scaffolds_to_profile in the order Python iterates it
iterate_commands(order, s2g, procs) ==
    CommandLoop(GroupKeys(s2g), Range(order), s2g,
                TargetSeconds(SumRuntime(order, s2g), procs), <<>>, FZero, <<>>)

(***************************************************************************)
(* Scaffold task processor.  A table is a sequence of rows; the per-gene   *)
(* tables have one row per gene of the scaffold (each stored profile holds *)
(* one non-empty threshold) and the variant table one row per scaffold     *)
(* with variant records.                                                   *)
(***************************************************************************)
None == [isNone |-> TRUE]
EmptyTable == <<>>
StageOrder == <<"coverage", "clonality", "SNP_density", "SNP_character">>

GeneRows(scaffold, metric) ==
    [i \in 1..Gdb[scaffold] |-> [gene |-> <<scaffold, i>>, metric |-> metric]]

VariantRows(scaffold) == <<[scaffold |-> scaffold, metric |-> "SNP_mutation_types"]>>

\* mutant: covTs[scaffold] and clonTs[scaffold] are read without the
\* membership tests of lines 287 and 298, raising KeyError
profile_genes_keyerror(scaffold) ==
    IF scaffold = Sentinel
    THEN [raised |-> TRUE, exception |-> "AssertionError"]
    ELSE IF scaffold \notin covTs \/ scaffold \notin clonTs
    THEN [raised |-> TRUE, exception |-> "KeyError"]
    ELSE [raised |-> FALSE,
          value |-> [isNone |-> FALSE,
                     scaffold |-> scaffold,
                     cdb |-> GeneRows(scaffold, "coverage"),
                     cldb |-> GeneRows(scaffold, "clonality"),
                     ldb |-> IF scaffold \notin CumulativeSNVtable THEN EmptyTable
                             ELSE GeneRows(scaffold, "SNP_density"),
                     sdb |-> IF scaffold \notin CumulativeSNVtable THEN EmptyTable
                             ELSE VariantRows(scaffold),
                     log_message |-> StageOrder]]

\* profile_genes: the outcome is an exception or the 5-tuple of results
profile_genes(scaffold) ==
    IF scaffold = Sentinel
    THEN [raised |-> TRUE, exception |-> "AssertionError"]
    ELSE [raised |-> FALSE,
          value |-> [isNone |-> FALSE,
                     scaffold |-> scaffold,
                     cdb |-> IF scaffold \notin covTs THEN EmptyTable
                             ELSE GeneRows(scaffold, "coverage"),
                     cldb |-> IF scaffold \notin clonTs THEN EmptyTable
                              ELSE GeneRows(scaffold, "clonality"),
                     ldb |-> IF scaffold \notin CumulativeSNVtable THEN EmptyTable
                             ELSE GeneRows(scaffold, "SNP_density"),
                     sdb |-> IF scaffold \notin CumulativeSNVtable THEN EmptyTable
                             ELSE VariantRows(scaffold),
                     log_message |-> StageOrder]]

\* profile_genes_wrapper: one entry per command, None where it raised
RECURSIVE WrapperLoop(_, _)
WrapperLoop(cmds, results) ==
    IF cmds = <<>> THEN results
    ELSE LET r == profile_genes(Head(cmds).scaffold)
         IN  WrapperLoop(Tail(cmds),
                         Append(results, IF r.raised THEN None ELSE r.value))

\* mutant: the try block encloses the loop, so the first exception ends it
profile_genes_wrapper_abort(cmds) ==
    LET failing == {i \in 1..Len(cmds) : profile_genes(cmds[i].scaffold).raised}
    IN  IF failing = {} THEN WrapperLoop(cmds, <<>>)
        ELSE LET first == CHOOSE i \in failing : \A j \in failing : i <= j
             IN  WrapperLoop(SubSeq(cmds, 1, first), <<>>)

profile_genes_wrapper(cmds) == WrapperLoop(cmds, <<>>)

\* mutant: the list is rebound to the results of the message
KeepResultsOverwrite(profiles, GPs) == SelectSeq(GPs, LAMBDA GP : GP # None)

\* for GP in GPs: if GP is not None: GeneProfiles.append(GP)
KeepResults(profiles, GPs) == profiles \o SelectSeq(GPs, LAMBDA GP : GP # None)

\* pd.concat([G[i] for G in GeneProfiles]) for one table name
RECURSIVE ConcatTables(_, _)
ConcatTables(profiles, name) ==
    IF profiles = <<>> THEN <<>>
    ELSE Head(profiles)[name] \o ConcatTables(Tail(profiles), name)

(***************************************************************************)
(* Queues.  A multiprocessing.Queue hands a put() item to a feeder thread  *)
(* of the putting process, which writes it to the pipe; get() takes the    *)
(* oldest item of the pipe under the queue's reader lock.                  *)
(***************************************************************************)
QueuePut(buffer, item) == Append(buffer, item)
QueueHead(pipe) == Head(pipe)
\* mutant: get() reads the oldest item without removing it
QueueRestPeek(pipe) == pipe
QueueRest(pipe) == Tail(pipe)

(***************************************************************************)
(* Initial states: the inputs of calculate_gene_metrics.  Every scaffold   *)
(* of the gene table has at least one gene; the profile store holds any    *)
(* subset of the scaffolds.  The loaded stores cover the scaffolds to      *)
(* profile, except that "A1" may have no coverage entry, "S1" may have no  *)
(* diversity entry and the variant table may be empty; the sentinel is     *)
(* left out because profile_genes raises before it reads any store.        *)
(***************************************************************************)
ToProfile(genes, keys) == {s \in Scaffolds : genes[s] > 0} \cap keys

Loaded(genes, keys) == ToProfile(genes, keys) \ {Sentinel}

\* no scaffold is being profiled at gene level
NoScaffold ==
    /\ gdb = <<>>
    /\ covT = <<>>
    /\ clonT = <<>>
    /\ Ldb = <<>>
    /\ gene2sequence = <<>>
    /\ rLen = 0
    /\ ANI_level = <<>>
    /\ stage = "idle"
    /\ cov_mms = <<>>
    /\ clon_mms = <<>>
    /\ cdb = <<>>
    /\ cldb = <<>>
    /\ ldb = <<>>
    /\ Sdb = <<>>
    /\ sdb = <<>>
    /\ snp_locals = <<>>
    /\ gene_info = <<>>

\* no scaffold is being split
NoSplits ==
    /\ sLen = 0
    /\ WINDOW_LEN = 0
    /\ numberChunks = 0
    /\ chunkLen = 0
    /\ split_start = 0
    /\ split_end = 0
    /\ split_number = 0
    /\ Fdb = <<>>
    /\ split_pc = "idle"

InitState ==
    /\ pc = "start"
    /\ scaffolds_to_profile = {}
    /\ runtime_sum = FZero
    /\ SECONDS = FZero
    /\ cmd_groups = <<>>
    /\ cmd_buffer = <<>>
    /\ cmd_pipe = <<>>
    /\ worker = <<>>
    /\ res_buffer = <<>>
    /\ res_pipe = <<>>
    /\ recieved_profiles = 0
    /\ GeneProfiles = <<>>
    /\ name2result = <<>>
    /\ error = "none"
    /\ dequeued = EmptyBag
    /\ published = EmptyBag
    /\ received = EmptyBag

Init ==
    /\ Gdb \in [Scaffolds -> PoolGeneCounts]
    /\ IS_covt_keys \in SUBSET Scaffolds
    /\ \E m \in SUBSET {"A1"} : covTs = Loaded(Gdb, IS_covt_keys) \ m
    /\ \E m \in SUBSET {"S1"} : clonTs = Loaded(Gdb, IS_covt_keys) \ m
    /\ CumulativeSNVtable \in {{}, Loaded(Gdb, IS_covt_keys)}
    /\ processes \in ProcessCounts
    /\ InitState
    /\ NoScaffold
    /\ NoSplits

\* inputs of the liveness check: every store complete
LiveInit ==
    /\ Gdb \in [Scaffolds -> PoolGeneCounts]
    /\ IS_covt_keys \in SUBSET Scaffolds
    /\ covTs = Loaded(Gdb, IS_covt_keys)
    /\ clonTs = covTs
    /\ CumulativeSNVtable = covTs
    /\ processes \in ProcessCounts
    /\ InitState
    /\ NoScaffold
    /\ NoSplits

\* inputs of the scheduler: any gene counts, every store complete
SchedInit ==
    /\ Gdb \in [Scaffolds -> SchedGeneCounts]
    /\ IS_covt_keys \in SUBSET Scaffolds
    /\ covTs = Loaded(Gdb, IS_covt_keys)
    /\ clonTs = covTs
    /\ CumulativeSNVtable = covTs
    /\ processes \in ProcessCounts
    /\ InitState
    /\ NoScaffold
    /\ NoSplits

(***************************************************************************)
(* calculate_gene_metrics, lines 157-207: pick the scaffolds, build the    *)
(* batches and put them on gene_cmd_queue.                                 *)
(***************************************************************************)
CreateCommands ==
    /\ pc = "start"
    /\ \E order \in SetOrders(ToProfile(Gdb, IS_covt_keys)) :
          /\ scaffolds_to_profile' = Range(order)
          /\ runtime_sum' = SumRuntime(order, Gdb)
          /\ SECONDS' = TargetSeconds(SumRuntime(order, Gdb), processes)
          /\ cmd_groups' = iterate_commands(order, Gdb, processes)
    /\ cmd_buffer' = cmd_groups'
    /\ pc' = "branch"
    /\ UNCHANGED <<splitter, gene_level, inputs, cmd_pipe, res_buffer, res_pipe, worker, aggr, history>>

Alive == pc \notin {"returned", "raised"}

\* feeder thread of the main process: buffer -> pipe of gene_cmd_queue
FeedCmd ==
    /\ Alive
    /\ cmd_buffer # <<>>
    /\ cmd_pipe' = Append(cmd_pipe, Head(cmd_buffer))
    /\ cmd_buffer' = Tail(cmd_buffer)
    /\ UNCHANGED <<splitter, gene_level, inputs, pc, sched, res_buffer, res_pipe, worker, aggr, history>>

NewWorker == [pc |-> "get", cmds |-> <<>>, GPs |-> <<>>]

\* lines 209-218: start the worker processes
StartWorkers ==
    /\ pc = "branch"
    /\ processes > 1
    /\ worker' = [w \in 1..processes |-> NewWorker]
    /\ res_buffer' = [w \in 1..processes |-> <<>>]
    /\ pc' = "collect"
    /\ UNCHANGED <<splitter, gene_level, inputs, sched, cmd_buffer, cmd_pipe, res_pipe, aggr, history>>

\* line 239: the caller runs gene_profile_worker itself (worker 0)
RunSingle ==
    /\ pc = "branch"
    /\ processes <= 1
    /\ worker' = [w \in {0} |-> NewWorker]
    /\ res_buffer' = [w \in {0} |-> <<>>]
    /\ pc' = "single_worker"
    /\ UNCHANGED <<splitter, gene_level, inputs, sched, cmd_buffer, cmd_pipe, res_pipe, aggr, history>>

(***************************************************************************)
(* gene_profile_worker                                                     *)
(***************************************************************************)
\* line 117: cmds = gene_cmd_queue.get(True)
WorkerGet(w) ==
    /\ w \in DOMAIN worker
    /\ w # 0
    /\ worker[w].pc = "get"
    /\ cmd_pipe # <<>>
    /\ worker' = [worker EXCEPT ![w] = [pc |-> "process", cmds |-> QueueHead(cmd_pipe),
                                        GPs |-> <<>>]]
    /\ cmd_pipe' = QueueRest(cmd_pipe)
    /\ dequeued' = dequeued (+) SetToBag({QueueHead(cmd_pipe)})
    /\ UNCHANGED <<splitter, gene_level, inputs, pc, sched, cmd_buffer, res_buffer, res_pipe, aggr,
                   published, received>>

\* lines 119-122: cmds = gene_cmd_queue.get_nowait(), return when it raises
WorkerGetNowait ==
    /\ 0 \in DOMAIN worker
    /\ worker[0].pc = "get"
    /\ IF cmd_pipe # <<>>
       THEN /\ worker' = [worker EXCEPT ![0] = [pc |-> "process",
                                                cmds |-> QueueHead(cmd_pipe),
                                                GPs |-> <<>>]]
            /\ cmd_pipe' = QueueRest(cmd_pipe)
            /\ dequeued' = dequeued (+) SetToBag({QueueHead(cmd_pipe)})
            /\ pc' = pc
       ELSE /\ worker' = [worker EXCEPT ![0].pc = "returned"]
            /\ pc' = "single_collect"
            /\ UNCHANGED <<cmd_pipe, dequeued>>
    /\ UNCHANGED <<splitter, gene_level, inputs, sched, cmd_buffer, res_buffer, res_pipe, aggr,
                   published, received>>

\* line 125: GPs = profile_genes_wrapper(cmds)
WorkerProcess(w) ==
    /\ w \in DOMAIN worker
    /\ worker[w].pc = "process"
    /\ worker' = [worker EXCEPT ![w].pc = "put",
                                ![w].GPs = profile_genes_wrapper(worker[w].cmds)]
    /\ UNCHANGED <<splitter, gene_level, inputs, pc, sched, queues, aggr, history>>

\* line 126: gene_result_queue.put(GPs)
WorkerPut(w) ==
    /\ w \in DOMAIN worker
    /\ worker[w].pc = "put"
    /\ res_buffer' = [res_buffer EXCEPT ![w] = QueuePut(@, worker[w].GPs)]
    /\ worker' = [worker EXCEPT ![w].pc = "get"]
    /\ published' = published (+) SetToBag({worker[w].GPs})
    /\ UNCHANGED <<splitter, gene_level, inputs, pc, sched, cmd_buffer, cmd_pipe, res_pipe, aggr,
                   dequeued, received>>

\* feeder thread of the process that put: buffer -> pipe of gene_result_queue
FeedRes(w) ==
    /\ w \in DOMAIN res_buffer
    /\ worker[w].pc # "terminated"
    /\ w = 0 => Alive
    /\ res_buffer[w] # <<>>
    /\ res_pipe' = Append(res_pipe, Head(res_buffer[w]))
    /\ res_buffer' = [res_buffer EXCEPT ![w] = Tail(@)]
    /\ UNCHANGED <<splitter, gene_level, inputs, pc, sched, cmd_buffer, cmd_pipe, worker, aggr, history>>

(***************************************************************************)
(* calculate_gene_metrics: aggregation                                     *)
(***************************************************************************)
\* mutant: every message is counted twice
CollectCountsTwice ==
    /\ pc = "collect"
    /\ recieved_profiles < Len(cmd_groups)
    /\ res_pipe # <<>>
    /\ res_pipe' = QueueRest(res_pipe)
    /\ recieved_profiles' = recieved_profiles + 2
    /\ GeneProfiles' = KeepResults(GeneProfiles, QueueHead(res_pipe))
    /\ received' = received (+) SetToBag({QueueHead(res_pipe)})
    /\ UNCHANGED <<splitter, gene_level, inputs, pc, sched, cmd_buffer, cmd_pipe, res_buffer,
                   worker, name2result, error, dequeued, published>>

\* lines 222-229: one iteration of the multi-process result loop
Collect ==
    /\ pc = "collect"
    /\ recieved_profiles < Len(cmd_groups)
    /\ res_pipe # <<>>
    /\ res_pipe' = QueueRest(res_pipe)
    /\ recieved_profiles' = recieved_profiles + 1
    /\ GeneProfiles' = KeepResults(GeneProfiles, QueueHead(res_pipe))
    /\ received' = received (+) SetToBag({QueueHead(res_pipe)})
    /\ UNCHANGED <<splitter, gene_level, inputs, pc, sched, cmd_buffer, cmd_pipe, res_buffer, worker,
                   name2result, error, dequeued, published>>

\* lines 231-236: leave the loop and terminate the workers
Terminate ==
    /\ pc = "collect"
    /\ ~(recieved_profiles < Len(cmd_groups))
    /\ worker' = [w \in DOMAIN worker |-> [worker[w] EXCEPT !.pc = "terminated"]]
    /\ res_buffer' = [w \in DOMAIN res_buffer |-> <<>>]
    /\ pc' = "concat"
    /\ UNCHANGED <<splitter, gene_level, inputs, sched, cmd_buffer, cmd_pipe, res_pipe, aggr, history>>

\* lines 243-251: the single-process result loop; pbar is assigned only on
\* the multi-process branch, so line 247 raises UnboundLocalError (a
\* NameError) in the first iteration
SingleCollect ==
    /\ pc = "single_collect"
    /\ IF recieved_profiles < Len(cmd_groups)
       THEN /\ res_pipe # <<>>
            /\ res_pipe' = QueueRest(res_pipe)
            /\ recieved_profiles' = recieved_profiles + 1
            /\ received' = received (+) SetToBag({QueueHead(res_pipe)})
            /\ error' = "UnboundLocalError"
            /\ pc' = "raised"
       ELSE /\ pc' = "concat"
            /\ UNCHANGED <<res_pipe, recieved_profiles, received, error>>
    /\ UNCHANGED <<splitter, gene_level, inputs, sched, cmd_buffer, cmd_pipe, res_buffer, worker,
                   GeneProfiles, name2result, dequeued, published>>

\* lines 255-263: pd.concat raises ValueError on an empty list of tables
Concat ==
    /\ pc = "concat"
    /\ IF GeneProfiles = <<>>
       THEN /\ error' = "ValueError"
            /\ pc' = "raised"
            /\ UNCHANGED name2result
       ELSE /\ name2result' = [coverage |-> ConcatTables(GeneProfiles, "cdb"),
                               clonality |-> ConcatTables(GeneProfiles, "cldb"),
                               SNP_density |-> ConcatTables(GeneProfiles, "ldb"),
                               SNP_mutation_types |-> ConcatTables(GeneProfiles, "sdb")]
            /\ pc' = "returned"
            /\ UNCHANGED error
    /\ UNCHANGED <<splitter, gene_level, inputs, sched, queues, worker, recieved_profiles, GeneProfiles,
                   history>>

WorkerIds == 0..MaxProcesses

SchedNext == CreateCommands

Next ==
    \/ CreateCommands
    \/ FeedCmd
    \/ StartWorkers
    \/ RunSingle
    \/ \E w \in WorkerIds : WorkerGet(w)
    \/ WorkerGetNowait
    \/ \E w \in WorkerIds : WorkerProcess(w)
    \/ \E w \in WorkerIds : WorkerPut(w)
    \/ \E w \in WorkerIds : FeedRes(w)
    \/ Collect
    \/ Terminate
    \/ SingleCollect
    \/ Concat

Spec == Init /\ [][Next]_vars

SchedSpec == SchedInit /\ [][SchedNext]_vars

(***************************************************************************)
(* Fair scheduling of the multi-process pool: once the batches are queued  *)
(* the operating system runs the caller, every worker process and every    *)
(* feeder thread that can take a step.                                     *)
(***************************************************************************)
PoolMainStep == StartWorkers \/ Collect \/ Terminate \/ Concat

WorkerStep(w) == WorkerGet(w) \/ WorkerProcess(w) \/ WorkerPut(w)

Fairness ==
    /\ WF_vars(PoolMainStep)
    /\ WF_vars(FeedCmd)
    /\ \A w \in 1..MaxProcesses : WF_vars(WorkerStep(w))
    /\ \A w \in 1..MaxProcesses : WF_vars(FeedRes(w))

FairSpec == LiveInit /\ [][Next]_vars /\ Fairness

(***************************************************************************)
(* Gene-level metrics of one scaffold (profile_genes, lines 283-326, and   *)
(* the functions it calls).  A pandas Series indexed by position is a      *)
(* function from its positions to its values; a table is a sequence of     *)
(* rows.  Depths are whole numbers; ratios and clonalities are binary64    *)
(* floats, held as above, with a sign where a ratio is formed.             *)
(***************************************************************************)
EmptySeries == [p \in {} |-> 0]
NaN == "NaN"

\* sorted(...) of a collection of distinct integers
RECURSIVE sorted(_)
sorted(S) ==
    IF S = {} THEN <<>>
    ELSE LET m == CHOOSE x \in S : \A y \in S : x <= y
         IN  <<m>> \o sorted(S \ {m})

\* rows of a table picked by row number, in row order
TakeRows(rows, idx) == LET o == sorted(idx) IN [k \in 1..Len(o) |-> rows[o[k]]]

\* counts.add(count, fill_value=0)
SeriesAdd(counts, count) ==
    [p \in DOMAIN counts \cup DOMAIN count |->
        (IF p \in DOMAIN counts THEN counts[p] ELSE 0)
        + (IF p \in DOMAIN count THEN count[p] ELSE 0)]

\* for pos, val in clonT[mm].items(): p2c[pos] = val
SeriesUpdate(p2c, vals) ==
    [p \in DOMAIN p2c \cup DOMAIN vals |-> IF p \in DOMAIN vals THEN vals[p] ELSE p2c[p]]

RECURSIVE ClonLoop(_, _, _, _)
ClonLoop(mms, T, p2c, yielded) ==
    IF mms = <<>> THEN yielded
    ELSE LET p2c2 == SeriesUpdate(p2c, T[Head(mms)])
         IN  ClonLoop(Tail(mms), T, p2c2,
                      Append(yielded, [mm |-> Head(mms), cov |-> p2c2]))

RECURSIVE CovLoop(_, _, _, _)
CovLoop(mms, T, counts, yielded) ==
    IF mms = <<>> THEN yielded
    ELSE LET counts2 == SeriesAdd(counts, T[Head(mms)])
         IN  CovLoop(Tail(mms), T, counts2,
                     Append(yielded, [mm |-> Head(mms), cov |-> counts2]))

\* mutant: the counts of a threshold replace the running total
iterate_covT_mms_overwrite(T) == ClonLoop(sorted(DOMAIN T), T, EmptySeries, <<>>)

\* the pairs (mm, counts) yielded by iterate_covT_mms, in order
iterate_covT_mms(T) == CovLoop(sorted(DOMAIN T), T, EmptySeries, <<>>)

\* mutant: a position keeps the first value written to it
iterate_clonT_mms_keepfirst(T) ==
    LET mms == sorted(DOMAIN T)
    IN  [k \in 1..Len(mms) |->
            [mm |-> mms[k],
             cov |-> [p \in UNION {DOMAIN T[mms[j]] : j \in 1..k} |->
                         LET holders == {j \in 1..k : p \in DOMAIN T[mms[j]]}
                             first == CHOOSE j \in holders : \A i \in holders : j <= i
                         IN  T[mms[first]][p]]]]

\* the pairs (mm, Series) yielded by iterate_clonT_mms, in order
iterate_clonT_mms(T) == ClonLoop(sorted(DOMAIN T), T, EmptySeries, <<>>)

\* mutant: the Series is not cut to the gene
GeneSliceWhole(cov, row) == cov

\* cov.loc[int(row['start']):int(row['end'])]: label slice, both ends included
GeneSlice(cov, row) ==
    [p \in {q \in DOMAIN cov : row.start <= q /\ q <= row.end} |-> cov[p]]

\* gLen = abs(row['end'] - row['start']) + 1
GeneLength(row) ==
    (IF row.end >= row.start THEN row.end - row.start ELSE row.start - row.end) + 1

RECURSIVE SeriesSum(_)
SeriesSum(series) ==
    IF DOMAIN series = {} THEN 0
    ELSE LET p == CHOOSE q \in DOMAIN series : TRUE
         IN  series[p] + SeriesSum([q \in DOMAIN series \ {p} |-> series[q]])

\* n / d in binary64 for whole numbers n and d > 0
Ratio(n, d) ==
    [neg |-> n < 0, mag |-> FDiv(FInt(IF n < 0 THEN 0 - n ELSE n), d)]

RECURSIVE Flatten(_)
Flatten(tables) ==
    IF tables = <<>> THEN <<>> ELSE Head(tables) \o Flatten(Tail(tables))

\* "if len(cov) == 0: continue": the yielded pairs whose Series is not empty
NonEmptyYields(yielded) == SelectSeq(yielded, LAMBDA y : DOMAIN y.cov # {})

CoverageRow(row, cov, mm) ==
    LET gcov == GeneSlice(cov, row)
        gLen == GeneLength(row)
    IN  [gene |-> row.gene,
         coverage |-> Ratio(SeriesSum(gcov), gLen),
         breadth |-> Ratio(Cardinality(DOMAIN gcov), gLen),
         mm |-> mm]

calc_gene_coverage(genes, T) ==
    LET yielded == NonEmptyYields(iterate_covT_mms(T))
    IN  Flatten([k \in 1..Len(yielded) |->
                    [i \in 1..Len(genes) |->
                        CoverageRow(genes[i], yielded[k].cov, yielded[k].mm)]])

\* a - b in binary64 for a >= b >= 0
FSub(a, b) == Round53(BnSub(a, b), FALSE)

\* sum of the values of a Series of floats, in index order
RECURSIVE FloatSum(_, _)
FloatSum(series, index) ==
    IF index = <<>> THEN FZero
    ELSE FAdd(FloatSum(series, SubSeq(index, 1, Len(index) - 1)),
              series[index[Len(index)]])

\* gcov.mean(): NaN for an empty Series
SeriesMean(series) ==
    IF DOMAIN series = {} THEN NaN
    ELSE FDiv(FloatSum(series, sorted(DOMAIN series)), Cardinality(DOMAIN series))

ClonalityRow(row, cov, mm) ==
    LET gcov == GeneSlice(cov, row)
        gLen == GeneLength(row)
        mean == SeriesMean(gcov)
    IN  [gene |-> row.gene,
         clonality |-> mean,
         microdiversity |-> IF mean = NaN THEN NaN ELSE FSub(FInt(1), mean),
         masked_breadth |-> Ratio(Cardinality(DOMAIN gcov), gLen),
         mm |-> mm]

calc_gene_clonality(genes, T) ==
    LET yielded == NonEmptyYields(iterate_clonT_mms(T))
    IN  Flatten([k \in 1..Len(yielded) |->
                    [i \in 1..Len(genes) |->
                        ClonalityRow(genes[i], yielded[k].cov, yielded[k].mm)]])

\* mutant: the records above the threshold are not left out
UpToThresholdAll(rows, mm) == rows

\* rows[rows['mm'] <= mm]
UpToThreshold(rows, mm) == SelectSeq(rows, LAMBDA r : r.mm <= mm)

\* mutant: keep='first'
DropDuplicatesFirst(rows) ==
    TakeRows(rows, {i \in 1..Len(rows) :
                       \A j \in 1..(i - 1) : rows[j].position # rows[i].position})

\* drop_duplicates(subset=['scaffold', 'position'], keep='last'); the rows
\* are those of one scaffold
DropDuplicatesLast(rows) ==
    TakeRows(rows, {i \in 1..Len(rows) :
                       \A j \in (i + 1)..Len(rows) : rows[j].position # rows[i].position})

\* db.set_index('position')['refBase'].sort_index()
PositionSeries(rows) ==
    [p \in {rows[i].position : i \in 1..Len(rows)} |->
        (CHOOSE r \in Range(rows) : r.position = p).refBase]

DensityRow(row, cov, mm) ==
    LET gcov == GeneSlice(cov, row)
        gLen == GeneLength(row)
    IN  [gene |-> row.gene,
         SNPs_per_bp |-> Ratio(Cardinality(DOMAIN gcov), gLen),
         mm |-> mm]

\* the Series built for every mm of sorted(ldb['mm'].unique())
DensitySnapshots(rows) ==
    LET mms == sorted({rows[i].mm : i \in 1..Len(rows)})
    IN  [k \in 1..Len(mms) |->
            [mm |-> mms[k],
             cov |-> PositionSeries(DropDuplicatesLast(UpToThreshold(rows, mms[k])))]]

calc_gene_snp_density(genes, rows) ==
    LET yielded == NonEmptyYields(DensitySnapshots(rows))
    IN  Flatten([k \in 1..Len(yielded) |->
                    [i \in 1..Len(genes) |->
                        DensityRow(genes[i], yielded[k].cov, yielded[k].mm)]])

(***************************************************************************)
(* Sequences (Bio.Seq): a nucleotide sequence is a sequence of the letters *)
(* A, C, G, T; translate() reads whole codons of the standard table and    *)
(* ignores a trailing partial codon.                                       *)
(***************************************************************************)
Bases == {"A", "C", "G", "T"}

complement(b) == CASE b = "A" -> "T" [] b = "T" -> "A" [] b = "C" -> "G" [] b = "G" -> "C"

\* mutant: the sequence is reversed, its bases are not complemented
reverse_only(seq) == [i \in 1..Len(seq) |-> seq[Len(seq) + 1 - i]]

reverse_complement(seq) == [i \in 1..Len(seq) |-> complement(seq[Len(seq) + 1 - i])]

\* the standard genetic code, codons in the order T, C, A, G
AminoAcids ==
    <<"F", "F", "L", "L", "S", "S", "S", "S", "Y", "Y", "*", "*", "C", "C", "*", "W",
      "L", "L", "L", "L", "P", "P", "P", "P", "H", "H", "Q", "Q", "R", "R", "R", "R",
      "I", "I", "I", "M", "T", "T", "T", "T", "N", "N", "K", "K", "S", "S", "R", "R",
      "V", "V", "V", "V", "A", "A", "A", "A", "D", "D", "E", "E", "G", "G", "G", "G">>

BaseRank(b) == CASE b = "T" -> 0 [] b = "C" -> 1 [] b = "A" -> 2 [] b = "G" -> 3

translate(seq) ==
    [k \in 1..(Len(seq) \div 3) |->
        AminoAcids[16 * BaseRank(seq[3 * k - 2]) + 4 * BaseRank(seq[3 * k - 1])
                   + BaseRank(seq[3 * k]) + 1]]

(***************************************************************************)
(* characterize_SNPs.  Python indexes from 0: snp_start is the 0-based     *)
(* offset, element snp_start of a Python sequence is element snp_start + 1 *)
(* here.                                                                   *)
(***************************************************************************)
\* mutant: the end coordinate is taken as exclusive
GenesAtExclusive(genes, position) ==
    SelectSeq(genes, LAMBDA g : g.start <= position /\ g.end > position)

\* gdb[(gdb['start'] <= position) & (gdb['end'] >= position)]
GenesAt(genes, position) ==
    SelectSeq(genes, LAMBDA g : g.start <= position /\ g.end >= position)

\* ','.join(names)
RECURSIVE Join(_)
Join(names) ==
    IF names = <<>> THEN ""
    ELSE IF Len(names) = 1 THEN names[1]
    ELSE names[1] \o "," \o Join(Tail(names))

\* mutant: the effect string carries the residue index
RECURSIVE FindMutationResidueIndex(_, _, _, _)
FindMutationResidueIndex(old_aa_sequence, new_aa_sequence, snp_start, aa) ==
    IF aa >= Len(old_aa_sequence)
    THEN [mut_type |-> "S", mut |-> "S:" \o ToString(snp_start)]
    ELSE IF new_aa_sequence[aa + 1] # old_aa_sequence[aa + 1]
    THEN [mut_type |-> "N",
          mut |-> "N:" \o old_aa_sequence[aa + 1] \o ToString(aa)
                  \o new_aa_sequence[aa + 1]]
    ELSE FindMutationResidueIndex(old_aa_sequence, new_aa_sequence, snp_start, aa + 1)

\* lines 510-516: scan the residues from index aa on, stop at the first
\* one that differs (aa is 0-based)
RECURSIVE FindMutation(_, _, _, _)
FindMutation(old_aa_sequence, new_aa_sequence, snp_start, aa) ==
    IF aa >= Len(old_aa_sequence)
    THEN [mut_type |-> "S", mut |-> "S:" \o ToString(snp_start)]
    ELSE IF new_aa_sequence[aa + 1] # old_aa_sequence[aa + 1]
    THEN [mut_type |-> "N",
          mut |-> "N:" \o old_aa_sequence[aa + 1] \o ToString(snp_start)
                  \o new_aa_sequence[aa + 1]]
    ELSE FindMutation(old_aa_sequence, new_aa_sequence, snp_start, aa + 1)

\* mutant: the variant base is written without the test of line 494
MakeNewSequenceVarOnly(original_sequence, snp_start, row) ==
    [original_sequence EXCEPT ![snp_start + 1] = row.varBase]

\* lines 492-496: write the variant base at snp_start, and the consensus
\* base instead when that leaves the base unchanged
MakeNewSequence(original_sequence, snp_start, row) ==
    LET with_var == [original_sequence EXCEPT ![snp_start + 1] = row.varBase]
    IN  IF with_var[snp_start + 1] = original_sequence[snp_start + 1]
        THEN [with_var EXCEPT ![snp_start + 1] = row.conBase]
        ELSE with_var

\* lines 485-516: the locals of the branch for a variant in exactly one gene
CodingLocals(row, g) ==
    LET stored == gene2sequence[g.gene]
        original_sequence == IF g.direction = "-1" THEN reverse_complement(stored)
                             ELSE stored
        snp_start == row.position - g.start
        new_sequence == MakeNewSequence(original_sequence, snp_start, row)
        old_translated == IF g.direction = "-1"
                          THEN reverse_complement(original_sequence)
                          ELSE original_sequence
        new_translated == IF g.direction = "-1"
                          THEN reverse_complement(new_sequence)
                          ELSE new_sequence
        old_aa_sequence == translate(old_translated)
        new_aa_sequence == translate(new_translated)
        found == FindMutation(old_aa_sequence, new_aa_sequence, snp_start, 0)
    IN  [row |-> row,
         gene |-> g,
         stored |-> stored,
         original_sequence |-> original_sequence,
         snp_start |-> snp_start,
         new_sequence |-> new_sequence,
         old_translated |-> old_translated,
         new_translated |-> new_translated,
         old_aa_sequence |-> old_aa_sequence,
         new_aa_sequence |-> new_aa_sequence,
         mut_type |-> found.mut_type,
         mut |-> found.mut]

\* the row characterize_SNPs appends for one row of Sdb
CharacterizeRow(genes, row) ==
    LET db == GenesAt(genes, row.position)
    IN  IF Len(db) = 0
        THEN [position |-> row.position, mutation_type |-> "I", mutation |-> "",
              gene |-> ""]
        ELSE IF Len(db) > 1
        THEN [position |-> row.position, mutation_type |-> "M", mutation |-> "",
              gene |-> Join([i \in 1..Len(db) |-> db[i].gene])]
        ELSE LET l == CodingLocals(row, db[1])
             IN  [position |-> row.position, mutation_type |-> l.mut_type,
                  mutation |-> l.mut, gene |-> db[1].gene]

characterize_SNPs(genes, rows) == [i \in 1..Len(rows) |-> CharacterizeRow(genes, rows[i])]

\* the locals of the coding rows, in the order of Sdb
CodingRows(genes, rows) ==
    LET coding == SelectSeq(rows, LAMBDA r : Len(GenesAt(genes, r.position)) = 1)
    IN  [i \in 1..Len(coding) |->
            CodingLocals(coding[i], GenesAt(genes, coding[i].position)[1])]

(***************************************************************************)
(* Characterize_SNPs_wrapper.  A row of the variant table carries its      *)
(* DataFrame index label in the field "index"; the table reaches the       *)
(* wrapper sorted by mm (line 174).                                        *)
(***************************************************************************)
\* drop(columns=...) on one row
Without(row, columns) == [f \in DOMAIN row \ columns |-> row[f]]

\* sort_index()
SortIndex(rows) ==
    LET labels == sorted({rows[i].index : i \in 1..Len(rows)})
    IN  [k \in 1..Len(labels) |-> CHOOSE r \in Range(rows) : r.index = labels[k]]

\* line 446: the column that holds the allele count
CountColumn(rows) ==
    IF \E i \in 1..Len(rows) : "morphia" \in DOMAIN rows[i] THEN "morphia"
    ELSE "allele_count"

\* lines 438-451: the variants that are characterized
FilteredVariants(rows) ==
    LET nonredundant == SortIndex(DropDuplicatesLast(rows))
        no_mm == [i \in 1..Len(nonredundant) |-> Without(nonredundant[i], {"mm"})]
        kept == SelectSeq(no_mm, LAMBDA r : r.cryptic = FALSE)
        no_cryptic == [i \in 1..Len(kept) |-> Without(kept[i], {"cryptic"})]
        col == CountColumn(no_cryptic)
    IN  SelectSeq(no_cryptic, LAMBDA r : r[col] > 0 /\ r[col] <= 2)

\* pd.merge(left, right, on=[key], how='left'); columns lists the columns
\* of right other than key
Merge(left, right, key, columns) ==
    Flatten([i \in 1..Len(left) |->
                LET matches == SelectSeq(right, LAMBDA r : r[key] = left[i][key])
                IN  IF matches = <<>>
                    THEN <<left[i] @@ [c \in columns |-> NaN]>>
                    ELSE [j \in 1..Len(matches) |->
                             left[i] @@ Without(matches[j], {key})]])

\* reset_index(drop=True)
ResetIndex(rows) == [i \in 1..Len(rows) |-> Without(rows[i], {"index"})]

\* the outcome of Characterize_SNPs_wrapper: the table or the exception
Characterize_SNPs_wrapper(rows, genes) ==
    LET filtered == FilteredVariants(rows)
        characterized == characterize_SNPs(genes, filtered)
    IN  IF Len(filtered) = 0 THEN [raised |-> FALSE, value |-> EmptyTable]
        ELSE IF Len(filtered) # Len(characterized)
        THEN [raised |-> TRUE, exception |-> "AssertionError"]
        ELSE [raised |-> FALSE,
              value |-> ResetIndex(Merge(filtered, characterized, "position",
                                         {"mutation_type", "mutation", "gene"}))]

(***************************************************************************)
(* get_gene_info and _get_mm.  The mean pair length is a float with a      *)
(* whole value, given as that whole number.                                *)
(***************************************************************************)
\* round(x) of a float x >= 0: nearest whole number, ties to the even one
RoundHalfEven(x) ==
    LET whole == BnShr(x, FracBits)
        frac == BnSub(x, BnShl(whole, FracBits))
        c == BnCmp(frac, BnShl(<<1>>, FracBits - 1))
    IN  IF c > 0 \/ (c = 0 /\ BnIsOdd(whole)) THEN BnAdd(whole, <<1>>) ELSE whole

\* int(...) of a whole number below LimbBase * LimbBase
BnToInt(a) ==
    IF a = <<>> THEN 0 ELSE IF Len(a) = 1 THEN a[1] ELSE a[1] + LimbBase * a[2]

\* mm = int(round(rLen - rLen * ANI)), ANI above 1 taken as a percentage
get_mm(read_length, ANI) ==
    LET fraction == IF BnGT(ANI, FInt(1)) THEN FDiv(ANI, 100) ELSE ANI
        product == Round53(BnMulSmall(fraction, read_length), FALSE)
    IN  BnToInt(RoundHalfEven(FSub(FInt(read_length), product)))

\* sort_values('mm'); the rows of one gene have distinct mm
SortByMM(rows) ==
    LET mms == sorted({rows[i].mm : i \in 1..Len(rows)})
    IN  Flatten([k \in 1..Len(mms) |-> SelectSeq(rows, LAMBDA r : r.mm = mms[k])])

\* mutant: drop_duplicates keeps the first row of every gene
FirstPerGene(rows) ==
    TakeRows(rows, {i \in 1..Len(rows) :
                       \A j \in 1..(i - 1) : rows[j].gene # rows[i].gene})

\* drop_duplicates(subset=['gene'], keep='last')
LastPerGene(rows) ==
    TakeRows(rows, {i \in 1..Len(rows) :
                       \A j \in (i + 1)..Len(rows) : rows[j].gene # rows[i].gene})

\* lines 657-661 for one metric table
JoinMetric(info, db, mm) ==
    IF Len(db) > 0
    THEN LET selected == LastPerGene(SortByMM(UpToThreshold(db, mm)))
             no_mm == [i \in 1..Len(selected) |-> Without(selected[i], {"mm"})]
         IN  Merge(info, no_mm, "gene", DOMAIN db[1] \ {"gene", "mm"})
    ELSE info

get_gene_info(genes_table, genes_coverage, genes_clonality, genes_SNP_density, read_length, ANI) ==
    LET mm == get_mm(read_length, ANI)
        joined == JoinMetric(JoinMetric(JoinMetric(genes_table, genes_coverage, mm),
                                        genes_clonality, mm),
                             genes_SNP_density, mm)
    IN  [i \in 1..Len(joined) |-> joined[i] @@ [min_ANI |-> ANI]]

(***************************************************************************)
(* Inputs of the gene-level model: one scaffold with its gene rows, its    *)
(* coverage and clonality profiles, its variant records and the stored     *)
(* sequences of its genes (as long as the gene is).                        *)
(***************************************************************************)
Positions == 0..MaxPos
Thresholds == {0, 1, 2}
Depths == {1, 2}

GeneRow(name, start, end, direction) ==
    [gene |-> name, start |-> start, end |-> end, direction |-> direction]

\* gene tables: two overlapping genes; a gene inside another and a gene
\* listed end first
MetricGeneTables ==
    {<<GeneRow("g1", 0, MaxPos - 1, "1"), GeneRow("g2", 1, MaxPos, "-1")>>,
     <<GeneRow("g1", 0, MaxPos, "1"), GeneRow("g2", 1, 1, "-1"),
       GeneRow("g3", MaxPos, 1, "1")>>}

\* gene tables for the variant positions 0 and MaxPos: the first in one
\* gene and the second in two; the first in three genes and the second in
\* none
VariantGeneTables ==
    {<<GeneRow("g1", 0, MaxPos, "1"), GeneRow("g2", 1, MaxPos, "-1")>>,
     <<GeneRow("g1", 0, 1, "1"), GeneRow("g2", 0, MaxPos - 1, "1"),
       GeneRow("g3", 0, 0, "-1")>>}

DefaultSequence(n) == [i \in 1..n |-> <<"A", "T", "G">>[((i - 1) % 3) + 1]]

DefaultSequences(genes) ==
    [g \in {genes[i].gene : i \in 1..Len(genes)} |->
        DefaultSequence(GeneLength(CHOOSE r \in Range(genes) : r.gene = g))]

\* the profile of one threshold: the covered positions, all at one depth;
\* the clonality there is 1.0 at depth 1 and 0.5 at depth 2
ThresholdProfiles ==
    {[positions |-> {}, depth |-> 1]} \cup
    [positions : (SUBSET Positions) \ {{}}, depth : Depths]

Profiles == UNION {[keys -> ThresholdProfiles] : keys \in SUBSET Thresholds}

CoverageOf(profile) ==
    [t \in DOMAIN profile |-> [p \in profile[t].positions |-> profile[t].depth]]

ClonalityOf(profile) ==
    [t \in DOMAIN profile |->
        [p \in profile[t].positions |-> FDiv(FInt(1), profile[t].depth)]]

\* a variant record; column names the allele-count column of the table
VariantRecord(index, mm, position, bases, cryptic, count, column) ==
    [index |-> index, mm |-> mm, position |-> position, refBase |-> bases[1],
     conBase |-> bases[2], varBase |-> bases[3], cryptic |-> cryptic]
    @@ (IF column = "morphia" THEN [morphia |-> count] ELSE [allele_count |-> count])

\* the table sorted by mm (line 174), rows of equal mm in label order
SortValuesMM(rows) ==
    LET code(r) == r.mm * (Len(rows) + 1) + r.index
        codes == sorted({code(rows[i]) : i \in 1..Len(rows)})
    IN  [k \in 1..Len(codes) |-> CHOOSE r \in Range(rows) : code(r) = codes[k]]

\* variant tables: up to MaxRows records at two positions and the three
\* thresholds, no two with the same position and threshold; each record is
\* kept (allele count 1 or 2), cryptic, or has allele count 0 or 3; the
\* row labels follow the positions or the thresholds
VariantKeys == {0, MaxPos} \X Thresholds
VariantFlags == {<<FALSE, 1>>, <<FALSE, 2>>, <<TRUE, 1>>, <<FALSE, 0>>, <<FALSE, 3>>}
LabelOrders == {"position", "mm"}
CountColumns == {"allele_count", "morphia"}

KeyCode(key, order) ==
    IF order = "position" THEN key[1] * 10 + key[2] ELSE key[2] * 10 + key[1]

VariantTable(keys, flags, order, column) ==
    LET codes == sorted({KeyCode(k, order) : k \in keys})
        key(i) == CHOOSE k \in keys : KeyCode(k, order) = codes[i]
    IN  [i \in 1..Len(codes) |->
            VariantRecord(i - 1, key(i)[2], key(i)[1], <<"A", "C", "G">>,
                          flags[key(i)][1], flags[key(i)][2], column)]

\* the variant table of the runs that vary the profiles
MetricVariants ==
    <<VariantRecord(0, 0, 1, <<"T", "C", "T">>, FALSE, 1, "allele_count"),
      VariantRecord(1, 2, 0, <<"A", "A", "G">>, FALSE, 2, "allele_count")>>

\* stored sequences of the runs that vary the sequence: any codon, alone
\* or followed by the codon CTT and a partial codon
Tails == {<<>>, <<"C", "T", "T", "A">>}
Directions == {"1", "-1"}

\* get_gene_info calls: mean pair length and ANI_level (a fraction, or a
\* percentage when above 1)
InfoCalls ==
    {[rLen |-> 2, ANI |-> FZero],
     [rLen |-> 2, ANI |-> FDiv(FInt(1), 2)],
     [rLen |-> 50, ANI |-> FDiv(FInt(99), 100)],
     [rLen |-> 150, ANI |-> FInt(99)]}

\* the pool is not running: the inputs of calculate_gene_metrics are empty
PoolIdle ==
    /\ Gdb = [s \in Scaffolds |-> 0]
    /\ IS_covt_keys = {}
    /\ covTs = {}
    /\ clonTs = {}
    /\ CumulativeSNVtable = {}
    /\ processes = 1
    /\ InitState

\* profile_genes is about to start on the scaffold
ScaffoldStart ==
    /\ NoSplits
    /\ rLen = 0
    /\ ANI_level = FZero
    /\ stage = "coverage"
    /\ cov_mms = <<>>
    /\ clon_mms = <<>>
    /\ cdb = EmptyTable
    /\ cldb = EmptyTable
    /\ ldb = EmptyTable
    /\ Sdb = EmptyTable
    /\ sdb = EmptyTable
    /\ snp_locals = <<>>
    /\ gene_info = <<>>

\* runs that vary the coverage and clonality profiles
MetricInit ==
    /\ PoolIdle
    /\ gdb \in MetricGeneTables
    /\ \E profile \in Profiles :
          /\ covT = CoverageOf(profile)
          /\ clonT = ClonalityOf(profile)
    /\ Ldb = SortValuesMM(MetricVariants)
    /\ gene2sequence = DefaultSequences(gdb)
    /\ ScaffoldStart

\* runs that vary the variant table
VariantInit ==
    /\ PoolIdle
    /\ gdb \in VariantGeneTables
    /\ covT = CoverageOf([t \in {0} |-> [positions |-> {0}, depth |-> 1]])
    /\ clonT = ClonalityOf([t \in {0} |-> [positions |-> {0}, depth |-> 1]])
    /\ \E keys \in {k \in SUBSET VariantKeys : Cardinality(k) <= MaxRows} :
          \E flags \in [keys -> VariantFlags] :
             \E order \in LabelOrders, column \in CountColumns :
                Ldb = SortValuesMM(VariantTable(keys, flags, order, column))
    /\ gene2sequence = DefaultSequences(gdb)
    /\ ScaffoldStart

\* runs that vary the stored sequence, the strand and the bases of one
\* variant inside the gene
CodonInit ==
    /\ PoolIdle
    /\ \E codon \in [1..3 -> Bases], tail \in Tails, direction \in Directions :
          /\ gdb = <<GeneRow("g1", 2, Len(codon \o tail) + 1, direction)>>
          /\ gene2sequence = [g \in {"g1"} |-> codon \o tail]
    /\ \E position \in 2..gdb[1].end, bases \in [1..3 -> Bases] :
          Ldb = <<VariantRecord(0, 0, position, bases, FALSE, 1, "allele_count")>>
    /\ covT = CoverageOf([t \in {0} |-> [positions |-> {0}, depth |-> 1]])
    /\ clonT = ClonalityOf([t \in {0} |-> [positions |-> {0}, depth |-> 1]])
    /\ ScaffoldStart

(***************************************************************************)
(* profile_genes, lines 283-326, one stage per action, and get_gene_info   *)
(* on the tables it produced.                                              *)
(***************************************************************************)
\* lines 287-293: cdb = calc_gene_coverage(gdb, covT)
CalcGeneCoverage ==
    /\ stage = "coverage"
    /\ cov_mms' = iterate_covT_mms(covT)
    /\ cdb' = calc_gene_coverage(gdb, covT)
    /\ stage' = "clonality"
    /\ UNCHANGED <<splitter, pool, scaffold_in, clon_mms, cldb, ldb, Sdb, sdb, snp_locals,
                   gene_info>>

\* lines 298-304: cldb = calc_gene_clonality(gdb, clonT)
CalcGeneClonality ==
    /\ stage = "clonality"
    /\ clon_mms' = iterate_clonT_mms(clonT)
    /\ cldb' = calc_gene_clonality(gdb, clonT)
    /\ stage' = "SNP_density"
    /\ UNCHANGED <<splitter, pool, scaffold_in, cov_mms, cdb, ldb, Sdb, sdb, snp_locals,
                   gene_info>>

\* lines 309-313: ldb = calc_gene_snp_density(gdb, Ldb) unless Ldb is empty
CalcGeneSnpDensity ==
    /\ stage = "SNP_density"
    /\ ldb' = IF Len(Ldb) = 0 THEN EmptyTable ELSE calc_gene_snp_density(gdb, Ldb)
    /\ stage' = "SNP_character"
    /\ UNCHANGED <<splitter, pool, scaffold_in, cov_mms, clon_mms, cdb, cldb, Sdb, sdb,
                   snp_locals, gene_info>>

\* lines 318-321: sdb = Characterize_SNPs_wrapper(Ldb, gdb) unless Ldb is empty
CharacterizeSNPs ==
    /\ stage = "SNP_character"
    /\ IF Len(Ldb) = 0
       THEN /\ sdb' = EmptyTable
            /\ stage' = "profiled"
            /\ UNCHANGED <<Sdb, snp_locals>>
       ELSE LET outcome == Characterize_SNPs_wrapper(Ldb, gdb)
            IN  /\ Sdb' = FilteredVariants(Ldb)
                /\ snp_locals' = CodingRows(gdb, FilteredVariants(Ldb))
                /\ sdb' = IF outcome.raised THEN EmptyTable ELSE outcome.value
                /\ stage' = IF outcome.raised THEN "raised" ELSE "profiled"
    /\ UNCHANGED <<splitter, pool, scaffold_in, cov_mms, clon_mms, cdb, cldb, ldb, gene_info>>

\* get_gene_info on the gene table and the three stored metric tables
GetGeneInfo ==
    /\ stage = "profiled"
    /\ \E call \in InfoCalls :
          /\ rLen' = call.rLen
          /\ ANI_level' = call.ANI
          /\ gene_info' = get_gene_info(gdb, cdb, cldb, ldb, call.rLen, call.ANI)
    /\ stage' = "info"
    /\ UNCHANGED <<splitter, pool, gdb, covT, clonT, Ldb, gene2sequence, cov_mms, clon_mms,
                   cdb, cldb, ldb, Sdb, sdb, snp_locals>>

GeneNext ==
    \/ CalcGeneCoverage
    \/ CalcGeneClonality
    \/ CalcGeneSnpDensity
    \/ CharacterizeSNPs
    \/ GetGeneInfo

MetricSpec == MetricInit /\ [][GeneNext]_vars

VariantSpec == VariantInit /\ [][GeneNext]_vars

CodonSpec == CodonInit /\ [][GeneNext]_vars

(***************************************************************************)
(* Splitting of the scaffolds into windows (inStrain/controller.py,        *)
(* iterate_splits, lines 510-527), one action per step of the generator.   *)
(***************************************************************************)
ScaffoldLengths == 1..MaxScaffoldLength
WindowLengths == 1..MaxWindow

\* int(x) of a non-negative float
FloatToInt(x) == BnToInt(BnShr(x, FracBits))

\* line 514: numberChunks = sLen // WINDOW_LEN + 1
NumberChunks(length, window) == length \div window + 1

\* line 515: chunkLen = int(sLen / numberChunks), a true division of floats
ChunkLen(length, chunks) == FloatToInt(FDiv(FInt(length), chunks))

SplitInit ==
    /\ PoolIdle
    /\ NoScaffold
    /\ sLen \in ScaffoldLengths
    /\ WINDOW_LEN \in WindowLengths
    /\ numberChunks = 0
    /\ chunkLen = 0
    /\ split_start = 0
    /\ split_end = 0
    /\ split_number = 0
    /\ Fdb = <<>>
    /\ split_pc = "begin"

\* lines 514-520: the generator runs up to its loop
IterateSplitsBegin ==
    /\ split_pc = "begin"
    /\ numberChunks' = NumberChunks(sLen, WINDOW_LEN)
    /\ chunkLen' = ChunkLen(sLen, NumberChunks(sLen, WINDOW_LEN))
    /\ split_start' = 0
    /\ split_end' = 0
    /\ split_number' = 0
    /\ split_pc' = "loop"
    /\ UNCHANGED <<pool, gene_level, sLen, WINDOW_LEN, Fdb>>

\* lines 521-527: one iteration of "for i in range(numberChunks)"; the
\* caller (lines 398-402) appends the yielded pair to its table
IterateSplitsNext ==
    /\ split_pc = "loop"
    /\ split_number < numberChunks
    /\ IF split_number + 1 = numberChunks
       THEN /\ Fdb' = Append(Fdb, [split_number |-> split_number,
                                   start |-> split_start, end |-> sLen - 1])
            /\ split_pc' = "done"
            /\ UNCHANGED <<split_start, split_end>>
       ELSE /\ split_end' = split_end + chunkLen
            /\ Fdb' = Append(Fdb, [split_number |-> split_number,
                                   start |-> split_start, end |-> split_end' - 1])
            /\ split_start' = split_start + chunkLen
            /\ split_pc' = "loop"
    /\ split_number' = split_number + 1
    /\ UNCHANGED <<pool, gene_level, sLen, WINDOW_LEN, numberChunks, chunkLen>>

SplitNext ==
    \/ IterateSplitsBegin
    \/ IterateSplitsNext

SplitSpec == SplitInit /\ [][SplitNext]_vars

(***************************************************************************)
(* Properties of the batch scheduler (checked under SchedSpec).            *)
(***************************************************************************)
Scheduled == pc # "start"

\* number of Commands for scaffold s over all batches
Occurrences(s) ==
    Cardinality(UNION {{<<i, j>> : j \in {k \in 1..Len(cmd_groups[i]) :
                                            cmd_groups[i][k].scaffold = s}} :
                       i \in 1..Len(cmd_groups)})

\* C1: the batches partition the intersection of the scaffolds that have
\* genes and the scaffolds of the profile store: each such scaffold has
\* exactly one Command over all batches, every other scaffold has none.
C1_BatchesPartition ==
    Scheduled =>
        \A s \in Scaffolds :
            Occurrences(s) = IF Gdb[s] > 0 /\ s \in IS_covt_keys THEN 1 ELSE 0

C1_Witness ==
    /\ Scheduled
    /\ Len(cmd_groups) >= 2
    /\ Cardinality(ToProfile(Gdb, IS_covt_keys)) >= 2
    /\ \E s \in Scaffolds : Gdb[s] > 0 /\ s \notin IS_covt_keys

EqualCost == \A s, t \in ToProfile(Gdb, IS_covt_keys) : Gdb[s] = Gdb[t]

\* C2: for N >= 1 scaffolds of equal gene count the number of yielded lists
\* (the final one included) is at most ceil(total_cost / target_cost), i.e.
\* (number of lists - 1) * target < total.
C2_BatchCountBound ==
    (Scheduled /\ ToProfile(Gdb, IS_covt_keys) # {} /\ EqualCost) =>
        BnGT(runtime_sum, BnMulSmall(SECONDS, Len(cmd_groups) - 1))

Quotient == FDiv(runtime_sum, processes + 1)

\* C3 as stated: the target never exceeds the ceiling (60) and is never
\* below the total estimated cost divided by (worker count + 1).
C3_TargetBoundedBelow ==
    Scheduled => (BnLE(SECONDS, FInt(TargetCeiling)) /\ BnGE(SECONDS, Quotient))

\* C3 amended: the target is the smaller of the ceiling (60) and the total
\* estimated cost divided by (worker count + 1): it exceeds neither, and it
\* is the ceiling, strictly below the quotient, when the quotient is above 60.
C3_TargetIsMinimum ==
    Scheduled =>
        /\ BnLE(SECONDS, FInt(TargetCeiling))
        /\ BnLE(SECONDS, Quotient)
        /\ SECONDS \in {FInt(TargetCeiling), Quotient}

C3_Witness ==
    /\ Scheduled
    /\ BnGT(Quotient, FInt(TargetCeiling))
    /\ SECONDS = FInt(TargetCeiling)

(***************************************************************************)
(* Properties of the worker pool and the aggregation (checked under Spec). *)
(***************************************************************************)
Fails(cmd) == profile_genes(cmd.scaffold).raised

\* C4: profile_genes_wrapper returns one entry per command in batch order;
\* the entry of a scaffold whose processing raises is None and the other
\* entries are the results the batch without the failing scaffolds gives.
C4_FailureIsolated ==
    \A w \in DOMAIN worker :
        worker[w].pc = "put" =>
            LET cmds == worker[w].cmds
                GPs == worker[w].GPs
            IN  /\ Len(GPs) = Len(cmds)
                /\ \A i \in 1..Len(cmds) :
                       /\ Fails(cmds[i]) => GPs[i] = None
                       /\ ~Fails(cmds[i]) =>
                              /\ GPs[i] # None
                              /\ GPs[i].scaffold = cmds[i].scaffold
                /\ SelectSeq(GPs, LAMBDA GP : GP # None)
                       = profile_genes_wrapper(SelectSeq(cmds, LAMBDA c : ~Fails(c)))

C4_Witness ==
    \E w \in DOMAIN worker :
        /\ worker[w].pc = "put"
        /\ Len(worker[w].cmds) >= 2
        /\ worker[w].cmds[1].scaffold = Sentinel
        /\ worker[w].GPs[1] = None
        /\ worker[w].GPs[2] # None

AggregatedScaffolds == {GeneProfiles[i].scaffold : i \in 1..Len(GeneProfiles)}

\* C5: with the sentinel among the scaffolds to profile, the sentinel gives a
\* null result, calculate_gene_metrics does not raise, and the aggregated
\* scaffolds are those of the same input without the sentinel (stated for
\* the multi-process mode).
C5_SentinelHarmless ==
    (processes > 1 /\ Sentinel \in ToProfile(Gdb, IS_covt_keys)) =>
        /\ pc # "raised"
        /\ pc = "returned" =>
               AggregatedScaffolds = ToProfile(Gdb, IS_covt_keys) \ {Sentinel}

\* C6: in multi-process mode every batch is dequeued by at most one worker,
\* at most one result list is published for a dequeued batch and received
\* once; when the aggregation loop has ended every batch has been dequeued,
\* published and received exactly once and the aggregator has counted
\* len(cmd_groups) messages.
C6_ExactlyOnce ==
    processes > 1 =>
        /\ \A b \in BagToSet(dequeued) : b \in Range(cmd_groups)
        /\ \A r \in BagToSet(published) :
               \E i \in 1..Len(cmd_groups) : r = profile_genes_wrapper(cmd_groups[i])
        /\ \A i \in 1..Len(cmd_groups) :
               LET b == cmd_groups[i]
                   r == profile_genes_wrapper(b)
               IN  /\ CopiesIn(b, dequeued) <= 1
                   /\ CopiesIn(r, published) <= CopiesIn(b, dequeued)
                   /\ CopiesIn(r, received) <= CopiesIn(r, published)
                   /\ pc \in {"concat", "returned", "raised"} =>
                          /\ CopiesIn(b, dequeued) = 1
                          /\ CopiesIn(r, published) = 1
                          /\ CopiesIn(r, received) = 1
        /\ recieved_profiles = BagCardinality(received)
        /\ pc \in {"concat", "returned", "raised"} =>
               recieved_profiles = Len(cmd_groups)

C6_Witness ==
    /\ processes > 1
    /\ pc = "returned"
    /\ Len(cmd_groups) >= 3
    /\ \E v, w \in DOMAIN worker : v # w /\ worker[v].cmds # <<>> /\ worker[w].cmds # <<>>

\* C7: in multi-process mode, under fair scheduling, the aggregator receives
\* all len(cmd_groups) results, terminates the workers and returns.
C7_TerminatesAndReturns ==
    (pc = "collect") ~> (pc = "returned" /\ recieved_profiles = Len(cmd_groups))

\* C8: in single-process mode calculate_gene_metrics does not raise.
C8_SingleProcessReturns == (processes <= 1) => pc # "raised"

\* C9: when no scaffold is both annotated and in the profile store,
\* calculate_gene_metrics does not fail and returns four empty tables
\* (stated for the multi-process mode).
C9_EmptyInputEmptyTables ==
    (processes > 1 /\ ToProfile(Gdb, IS_covt_keys) = {}) =>
        /\ pc # "raised"
        /\ pc = "returned" =>
               /\ name2result.coverage = EmptyTable
               /\ name2result.clonality = EmptyTable
               /\ name2result.SNP_density = EmptyTable
               /\ name2result.SNP_mutation_types = EmptyTable

\* C10: a scaffold with no entry in the coverage store (or the diversity
\* store) does not make profile_genes raise: its result is non-null with
\* that metric's table empty, the stages ran in the order coverage,
\* diversity, SNP density, mutation effects, and the aggregator keeps the
\* result.
C10_MissingProfileNotFatal ==
    /\ \A w \in DOMAIN worker :
           worker[w].pc = "put" =>
               \A i \in 1..Len(worker[w].cmds) :
                   LET s == worker[w].cmds[i].scaffold
                       GP == worker[w].GPs[i]
                   IN  (s # Sentinel /\ (s \notin covTs \/ s \notin clonTs)) =>
                           /\ GP # None
                           /\ s \notin covTs => GP.cdb = <<>>
                           /\ s \notin clonTs => GP.cldb = <<>>
                           /\ GP.log_message = <<"coverage", "clonality",
                                                  "SNP_density", "SNP_character">>
    /\ pc \in {"concat", "returned"} =>
           \A s \in ToProfile(Gdb, IS_covt_keys) \ {Sentinel} :
               (s \notin covTs \/ s \notin clonTs) =>
                   \E i \in 1..Len(GeneProfiles) :
                       /\ GeneProfiles[i].scaffold = s
                       /\ s \notin covTs => GeneProfiles[i].cdb = <<>>
                       /\ s \notin clonTs => GeneProfiles[i].cldb = <<>>

C10_Witness ==
    /\ pc = "returned"
    /\ "A1" \in scaffolds_to_profile
    /\ "A1" \notin covTs
    /\ "S1" \in scaffolds_to_profile
    /\ "S1" \notin clonTs
    /\ {"A1", "S1"} \subseteq AggregatedScaffolds
    /\ name2result.coverage # <<>>

(***************************************************************************)
(* Properties of the threshold iterators and the per-gene tables (checked  *)
(* under MetricSpec).                                                      *)
(***************************************************************************)
RECURSIVE SetSum(_, _)
SetSum(S, f) ==
    IF S = {} THEN 0
    ELSE LET x == CHOOSE y \in S : TRUE IN f[x] + SetSum(S \ {x}, f)

\* the thresholds of a profile at or below t that hold position p
HoldersUpTo(T, p, t) == {u \in DOMAIN T : u <= t /\ p \in DOMAIN T[u]}

\* the positions a profile holds at some threshold at or below t
PositionsUpTo(T, t) == UNION {DOMAIN T[u] : u \in {v \in DOMAIN T : v <= t}}

CumulativeDepth(p, t) ==
    SetSum(HoldersUpTo(covT, p, t), [u \in DOMAIN covT |->
                                        IF p \in DOMAIN covT[u] THEN covT[u][p] ELSE 0])

\* the yielded thresholds are the keys of the profile, each once, ascending
AscendingKeys(yielded, T) ==
    /\ Len(yielded) = Cardinality(DOMAIN T)
    /\ {yielded[k].mm : k \in 1..Len(yielded)} = DOMAIN T
    /\ \A i, j \in 1..Len(yielded) : i < j => yielded[i].mm < yielded[j].mm

CoverageDone == stage \notin {"idle", "coverage"}
ClonalityDone == stage \notin {"idle", "coverage", "clonality"}

\* C11: iterate_covT_mms visits the thresholds of the coverage profile in
\* ascending order; the snapshot yielded for threshold t holds exactly the
\* positions seen at thresholds <= t, each with the sum of its counts over
\* those thresholds; a position's cumulative coverage never decreases from
\* one yielded threshold to a later one.
C11_CumulativeCoverage ==
    CoverageDone =>
        /\ AscendingKeys(cov_mms, covT)
        /\ \A k \in 1..Len(cov_mms) :
               LET t == cov_mms[k].mm
                   cov == cov_mms[k].cov
               IN  /\ DOMAIN cov = PositionsUpTo(covT, t)
                   /\ \A p \in DOMAIN cov : cov[p] = CumulativeDepth(p, t)
        /\ \A i, j \in 1..Len(cov_mms) :
               i < j => \A p \in DOMAIN cov_mms[i].cov :
                            /\ p \in DOMAIN cov_mms[j].cov
                            /\ cov_mms[j].cov[p] >= cov_mms[i].cov[p]

C11_Witness ==
    /\ CoverageDone
    /\ Len(cov_mms) = 3
    /\ \E p, q \in DOMAIN cov_mms[3].cov :
          /\ p \in DOMAIN covT[0] /\ p \notin DOMAIN covT[1] /\ p \in DOMAIN covT[2]
          /\ cov_mms[1].cov[p] < cov_mms[3].cov[p]
          /\ cov_mms[2].cov[p] = cov_mms[1].cov[p]
          /\ q \notin DOMAIN cov_mms[1].cov

\* the highest threshold at or below t at which the clonality profile holds p
HighestHolder(p, t) ==
    CHOOSE u \in HoldersUpTo(clonT, p, t) : \A v \in HoldersUpTo(clonT, p, t) : v <= u

\* C12: iterate_clonT_mms visits the thresholds in ascending order; the
\* snapshot yielded for threshold t holds exactly the positions that appear
\* at some threshold <= t, each with the value recorded at the highest
\* threshold <= t in which it appears; a position not touched at t has the
\* value of the previous snapshot.
C12_OverwriteSnapshot ==
    ClonalityDone =>
        /\ AscendingKeys(clon_mms, clonT)
        /\ \A k \in 1..Len(clon_mms) :
               LET t == clon_mms[k].mm
                   cov == clon_mms[k].cov
               IN  /\ DOMAIN cov = PositionsUpTo(clonT, t)
                   /\ \A p \in DOMAIN cov : cov[p] = clonT[HighestHolder(p, t)][p]
                   /\ \A p \in DOMAIN cov :
                          (k > 1 /\ p \notin DOMAIN clonT[t]) =>
                              cov[p] = clon_mms[k - 1].cov[p]

C12_Witness ==
    /\ ClonalityDone
    /\ Len(clon_mms) = 3
    /\ \E p \in DOMAIN clon_mms[3].cov :
          /\ p \in DOMAIN clonT[0] /\ p \notin DOMAIN clonT[1] /\ p \in DOMAIN clonT[2]
          /\ clon_mms[2].cov[p] = clonT[0][p]
          /\ clon_mms[3].cov[p] = clonT[2][p]
          /\ BnGT(clonT[2][p], clonT[0][p])

\* the positions of the cumulative coverage at threshold t inside the
\* inclusive interval of a gene
CoveredIn(row, t) ==
    {p \in PositionsUpTo(covT, t) : row.start <= p /\ p <= row.end}

RowsOf(table, gene, t) == {i \in 1..Len(table) : table[i].gene = gene /\ table[i].mm = t}

AbsDiff(a, b) == IF a >= b THEN a - b ELSE b - a

\* C13: calc_gene_coverage emits one row per gene for every threshold whose
\* cumulative snapshot is not empty and none for the others; in every row
\* breadth is the number of snapshot positions inside [start, end] divided
\* by |end - start| + 1 and lies in [0, 1], and coverage is the sum of the
\* cumulative depth over that interval divided by the same length and is
\* not negative.
C13_BreadthAndCoverage ==
    CoverageDone =>
        /\ \A i \in 1..Len(cdb) :
               /\ ~cdb[i].breadth.neg
               /\ BnLE(cdb[i].breadth.mag, FInt(1))
               /\ ~cdb[i].coverage.neg
        /\ \A g \in 1..Len(gdb), t \in DOMAIN covT :
               LET row == gdb[g]
                   gLen == AbsDiff(row.end, row.start) + 1
                   inside == CoveredIn(row, t)
                   depth == SetSum(inside, [p \in Positions |-> CumulativeDepth(p, t)])
                   rows == RowsOf(cdb, row.gene, t)
               IN  IF PositionsUpTo(covT, t) = {} THEN rows = {}
                   ELSE /\ Cardinality(rows) = 1
                        /\ \A i \in rows :
                               /\ cdb[i].breadth.mag = FDiv(FInt(Cardinality(inside)), gLen)
                               /\ cdb[i].coverage.mag = FDiv(FInt(depth), gLen)
        /\ \A i \in 1..Len(cdb) :
               \E g \in 1..Len(gdb) : cdb[i].gene = gdb[g].gene /\ cdb[i].mm \in DOMAIN covT

C13_Witness ==
    /\ CoverageDone
    /\ \E i, j, k \in 1..Len(cdb) :
          /\ cdb[i].breadth.mag = FInt(1)
          /\ BnGT(cdb[i].coverage.mag, FInt(1))
          /\ cdb[j].breadth.mag = FZero
          /\ BnGT(cdb[k].breadth.mag, FZero) /\ BnGT(FInt(1), cdb[k].breadth.mag)
    /\ \E t \in DOMAIN covT : PositionsUpTo(covT, t) = {}

(***************************************************************************)
(* Properties of the SNP density table and of the variant-effect table     *)
(* (checked under VariantSpec).                                            *)
(***************************************************************************)
DensityDone == stage \in {"SNP_character", "profiled", "raised", "info"}
CharacterDone == stage \in {"profiled", "info"}

RecordedThresholds == {Ldb[i].mm : i \in 1..Len(Ldb)}

\* the positions inside the gene with a variant record at a threshold <= mm
VariantPositionsIn(row, mm) ==
    {p \in {Ldb[i].position : i \in 1..Len(Ldb)} :
        /\ row.start <= p /\ p <= row.end
        /\ \E i \in 1..Len(Ldb) : Ldb[i].position = p /\ Ldb[i].mm <= mm}

\* C14: for every threshold mm of the variant records and every gene,
\* calc_gene_snp_density emits exactly one row, and its SNPs_per_bp is the
\* number of distinct positions in [start, end] that have a record at a
\* threshold <= mm, divided by the gene length; no other row is emitted.
C14_SnpDensity ==
    (DensityDone /\ Len(Ldb) > 0) =>
        /\ Len(ldb) = Cardinality(RecordedThresholds) * Len(gdb)
        /\ \A g \in 1..Len(gdb), mm \in RecordedThresholds :
               LET row == gdb[g]
                   rows == RowsOf(ldb, row.gene, mm)
               IN  /\ Cardinality(rows) = 1
                   /\ \A i \in rows :
                          /\ ~ldb[i].SNPs_per_bp.neg
                          /\ ldb[i].SNPs_per_bp.mag =
                                 FDiv(FInt(Cardinality(VariantPositionsIn(row, mm))),
                                      AbsDiff(row.end, row.start) + 1)

C14_Witness ==
    /\ DensityDone
    /\ Len(Ldb) = 3
    /\ \E a, b, c \in 1..3 :
          /\ Ldb[a].position = 0 /\ Ldb[a].mm = 0
          /\ Ldb[b].position = 0 /\ Ldb[b].mm = 2
          /\ Ldb[c].position = MaxPos /\ Ldb[c].mm = 2
    /\ \E i, j \in 1..Len(ldb) :
          /\ ldb[i].gene = "g1" /\ ldb[i].mm = 0
          /\ ldb[i].SNPs_per_bp.mag = FDiv(FInt(1), MaxPos + 1)
          /\ ldb[j].gene = "g1" /\ ldb[j].mm = 2
          /\ ldb[j].SNPs_per_bp.mag = FDiv(FInt(2), MaxPos + 1)

\* the names of the genes whose inclusive interval contains the position
GenesContaining(position) ==
    {gdb[g].gene : g \in {h \in 1..Len(gdb) :
                             gdb[h].start <= position /\ position <= gdb[h].end}}

\* the comma-joined list of a set of the gene names, in table order
GeneList(names) ==
    CASE names = {"g1", "g2"} -> "g1,g2"
      [] names = {"g1", "g3"} -> "g1,g3"
      [] names = {"g2", "g3"} -> "g2,g3"
      [] names = {"g1", "g2", "g3"} -> "g1,g2,g3"
      [] OTHER -> "none"

\* C15: every characterized variant is classified by the number of genes
\* whose inclusive interval contains its position: none gives type I with
\* empty mutation and gene fields; two or more give type M with an empty
\* mutation field and the comma-joined list of those genes; exactly one
\* gives type S or N and that gene.
C15_ClassifiedByOverlap ==
    CharacterDone =>
        \A i \in 1..Len(sdb) :
            LET names == GenesContaining(sdb[i].position)
            IN  /\ Cardinality(names) = 0 =>
                       /\ sdb[i].mutation_type = "I"
                       /\ sdb[i].mutation = ""
                       /\ sdb[i].gene = ""
                /\ Cardinality(names) >= 2 =>
                       /\ sdb[i].mutation_type = "M"
                       /\ sdb[i].mutation = ""
                       /\ sdb[i].gene = GeneList(names)
                /\ Cardinality(names) = 1 =>
                       /\ sdb[i].mutation_type \in {"S", "N"}
                       /\ names = {sdb[i].gene}

C15_Witness ==
    /\ CharacterDone
    /\ \E i, j \in 1..Len(sdb) :
          /\ sdb[i].mutation_type = "M" /\ sdb[i].gene = "g1,g2,g3"
          /\ sdb[j].mutation_type = "I" /\ sdb[j].position = MaxPos

AlleleCount(r) == IF "morphia" \in DOMAIN r THEN r.morphia ELSE r.allele_count

\* the positions whose highest-threshold record is not cryptic and has
\* allele count 1 or 2
ProfiledPositions ==
    {p \in {Ldb[i].position : i \in 1..Len(Ldb)} :
        \E i \in 1..Len(Ldb) :
            /\ Ldb[i].position = p
            /\ \A j \in 1..Len(Ldb) : Ldb[j].position = p => Ldb[j].mm <= Ldb[i].mm
            /\ ~Ldb[i].cryptic
            /\ AlleleCount(Ldb[i]) \in {1, 2}}

\* C18: the table returned by Characterize_SNPs_wrapper has exactly one row
\* for each position whose highest-threshold record is not cryptic and has
\* allele count 1 or 2, and no other row; the assertion of line 459 never
\* fails.
C18_OneRowPerProfiledVariant ==
    /\ stage # "raised"
    /\ (CharacterDone /\ Len(Ldb) > 0) =>
           /\ Len(sdb) = Cardinality(ProfiledPositions)
           /\ {sdb[i].position : i \in 1..Len(sdb)} = ProfiledPositions
           /\ \A i \in 1..Len(sdb) :
                  /\ DOMAIN sdb[i] \cap {"mutation_type", "mutation", "gene"}
                         = {"mutation_type", "mutation", "gene"}
                  /\ sdb[i].mutation_type \in {"I", "M", "S", "N"}

C18_Witness ==
    /\ CharacterDone
    /\ Len(Ldb) = 3
    /\ \E a, b, c \in 1..3 :
          /\ Ldb[a].position = 0 /\ Ldb[a].mm = 0 /\ ~Ldb[a].cryptic
          /\ AlleleCount(Ldb[a]) = 1
          /\ Ldb[b].position = 0 /\ Ldb[b].mm = 1 /\ Ldb[b].cryptic
          /\ Ldb[c].position = MaxPos /\ AlleleCount(Ldb[c]) = 2 /\ ~Ldb[c].cryptic
    /\ Len(sdb) = 1
    /\ sdb[1].position = MaxPos

(***************************************************************************)
(* Properties of the codon-level classification (checked under CodonSpec). *)
(***************************************************************************)
\* the base of the original sequence at the offset of the variant
OriginalBase(l) == l.original_sequence[l.snp_start + 1]

\* the sequences differ at 0-based index k and nowhere else
DiffersOnlyAt(a, b, k) ==
    /\ Len(a) = Len(b)
    /\ a[k + 1] # b[k + 1]
    /\ \A i \in 1..Len(a) : i # k + 1 => a[i] = b[i]

\* C16 as stated: for every variant in exactly one gene the mutant sequence
\* differs from the original at offset position - gene.start and at no
\* other index, whatever the consensus and variant bases are.
C16_MutantAlwaysDiffers ==
    CharacterDone =>
        \A k \in 1..Len(snp_locals) :
            LET l == snp_locals[k]
            IN  /\ l.snp_start = l.row.position - l.gene.start
                /\ DiffersOnlyAt(l.new_sequence, l.original_sequence, l.snp_start)

\* C16 amended: the mutant sequence equals the original at every index
\* other than offset position - gene.start; there it carries the variant
\* base if that differs from the original base and the consensus base
\* otherwise, so it differs from the original exactly when the variant base
\* or the consensus base differs from the original base.
C16_MutantDiffersByAllele ==
    CharacterDone =>
        \A k \in 1..Len(snp_locals) :
            LET l == snp_locals[k]
                at == l.snp_start + 1
            IN  /\ l.snp_start = l.row.position - l.gene.start
                /\ Len(l.new_sequence) = Len(l.original_sequence)
                /\ \A i \in 1..Len(l.original_sequence) :
                       i # at => l.new_sequence[i] = l.original_sequence[i]
                /\ l.new_sequence[at] = IF l.row.varBase # OriginalBase(l)
                                        THEN l.row.varBase ELSE l.row.conBase
                /\ (l.new_sequence[at] # OriginalBase(l)) <=>
                       (l.row.varBase # OriginalBase(l) \/ l.row.conBase # OriginalBase(l))

C16_Witness ==
    /\ CharacterDone
    /\ \E k \in 1..Len(snp_locals) :
          LET l == snp_locals[k]
          IN  /\ l.row.varBase = OriginalBase(l)
              /\ l.row.conBase # OriginalBase(l)
              /\ l.snp_start > 0
              /\ DiffersOnlyAt(l.new_sequence, l.original_sequence, l.snp_start)
              /\ l.new_sequence[l.snp_start + 1] = l.row.conBase

\* the row of the variant-effect table for the variant of the locals l
EffectRows(l) == {i \in 1..Len(sdb) : sdb[i].position = l.row.position}

DifferingResidues(l) ==
    {aa \in 1..Len(l.old_aa_sequence) : l.new_aa_sequence[aa] # l.old_aa_sequence[aa]}

\* C17: a variant in exactly one gene has type S exactly when the
\* full-length translations of the original and the mutant are the same
\* residue by residue; otherwise it has type N and its effect string is the
\* original residue, the nucleotide offset position - gene.start and the
\* new residue, taken at the first residue that differs.
C17_SynonymousIffSameTranslation ==
    CharacterDone =>
        \A k \in 1..Len(snp_locals) :
            LET l == snp_locals[k]
                offset == l.row.position - l.gene.start
                differing == DifferingResidues(l)
                first == CHOOSE aa \in differing : \A other \in differing : aa <= other
            IN  /\ Len(l.old_aa_sequence) = Len(l.stored) \div 3
                /\ Len(l.new_aa_sequence) = Len(l.old_aa_sequence)
                /\ EffectRows(l) # {}
                /\ \A i \in EffectRows(l) :
                       /\ sdb[i].gene = l.gene.gene
                       /\ (sdb[i].mutation_type = "S") <=> (differing = {})
                       /\ differing = {} => sdb[i].mutation = "S:" \o ToString(offset)
                       /\ differing # {} =>
                              /\ sdb[i].mutation_type = "N"
                              /\ sdb[i].mutation =
                                     "N:" \o l.old_aa_sequence[first] \o ToString(offset)
                                     \o l.new_aa_sequence[first]

\* codon CTT changed to CTC in the second codon of a plus-strand gene is
\* synonymous
C17_Witness ==
    /\ CharacterDone
    /\ Len(snp_locals) = 1
    /\ snp_locals[1].gene.direction = "1"
    /\ Len(snp_locals[1].stored) = 7
    /\ SubSeq(snp_locals[1].old_translated, 4, 6) = <<"C", "T", "T">>
    /\ SubSeq(snp_locals[1].new_translated, 4, 6) = <<"C", "T", "C">>
    /\ sdb[1].mutation_type = "S"
    /\ sdb[1].mutation = "S:5"

BasePairs == {<<"A", "T">>, <<"T", "A">>, <<"C", "G">>, <<"G", "C">>}

\* C20: for a gene on the minus strand with stored sequence of length L the
\* base is substituted at offset position - gene.start of the reverse
\* complement of the stored sequence; the translated original is the stored
\* sequence and the translated mutant equals it at every index other than
\* L - 1 - offset, where it carries the complement of the substituted base.
\* For a gene on the plus strand the base is substituted at index offset of
\* the stored sequence.
C20_MinusStrand ==
    CharacterDone =>
        \A k \in 1..Len(snp_locals) :
            LET l == snp_locals[k]
                L == Len(l.stored)
                offset == l.row.position - l.gene.start
                substituted == l.new_sequence[offset + 1]
            IN  /\ l.old_translated = l.stored
                /\ Len(l.new_translated) = L
                /\ l.old_aa_sequence = translate(l.stored)
                /\ l.new_aa_sequence = translate(l.new_translated)
                /\ substituted = IF l.row.varBase # OriginalBase(l)
                                 THEN l.row.varBase ELSE l.row.conBase
                /\ l.gene.direction = "-1" =>
                       /\ \A i \in 1..L :
                              <<l.stored[L + 1 - i], l.original_sequence[i]>> \in BasePairs
                       /\ \A i \in 1..L :
                              i # L - offset => l.new_translated[i] = l.stored[i]
                       /\ <<substituted, l.new_translated[L - offset]>> \in BasePairs
                /\ l.gene.direction # "-1" =>
                       /\ l.original_sequence = l.stored
                       /\ \A i \in 1..L :
                              i # offset + 1 => l.new_translated[i] = l.stored[i]
                       /\ l.new_translated[offset + 1] = substituted

C20_Witness ==
    /\ CharacterDone
    /\ Len(snp_locals) = 1
    /\ snp_locals[1].gene.direction = "-1"
    /\ Len(snp_locals[1].stored) = 7
    /\ snp_locals[1].snp_start = 2
    /\ snp_locals[1].row.varBase = "G"
    /\ snp_locals[1].new_translated[5] = "C"
    /\ snp_locals[1].stored[5] = "T"
    /\ sdb[1].mutation_type = "N"

(***************************************************************************)
(* Properties of get_gene_info (checked under MetricSpec).                 *)
(***************************************************************************)
InfoDone == stage = "info"

\* the similarity of the call, in percent
PercentOf(ANI) ==
    CHOOSE a \in 0..100 : ANI = FDiv(FInt(a), 100) \/ (a > 1 /\ ANI = FInt(a))

\* the integer nearest to read_length * (100 - percent) / 100, the even one
\* of the two when it is half way between them
NearestThreshold(read_length, percent) ==
    CHOOSE m \in 0..read_length :
        LET distance == AbsDiff(100 * m, read_length * (100 - percent))
        IN  \/ 2 * distance < 100
            \/ 2 * distance = 100 /\ m % 2 = 0

\* the rows of a metric table for a gene at thresholds up to mm
AllowedRows(table, gene, mm) ==
    {k \in 1..Len(table) : table[k].gene = gene /\ table[k].mm <= mm}

\* the columns a metric table brings to the joined table
MetricColumns(table) == DOMAIN table[1] \ {"gene", "mm"}

\* the row of the joined table holds, for a metric table, the values of the
\* gene's row with the largest threshold <= mm, or missing values
JoinedFrom(info_row, table, mm) ==
    IF Len(table) = 0
    THEN {"coverage", "breadth", "clonality", "microdiversity", "masked_breadth",
          "SNPs_per_bp"} \cap DOMAIN info_row
             \subseteq UNION {MetricColumns(t) : t \in {cdb, cldb, ldb} \ {<<>>}}
    ELSE LET allowed == AllowedRows(table, info_row.gene, mm)
         IN  /\ MetricColumns(table) \subseteq DOMAIN info_row
             /\ IF allowed = {}
                THEN \A c \in MetricColumns(table) : info_row[c] = NaN
                ELSE \E k \in allowed :
                        /\ \A j \in allowed : table[j].mm <= table[k].mm
                        /\ \A c \in MetricColumns(table) : info_row[c] = table[k][c]

\* C19: get_gene_info, for the threshold mm = round(read_length * (1 -
\* similarity)), returns every gene of the gene table exactly once, in the
\* order of the gene table and with its gene-table columns; for each of the
\* coverage, clonality and SNP-density tables that is not empty every gene
\* carries the values of its row with the largest threshold <= mm, or
\* missing values when it has no row at a threshold <= mm; an empty table
\* adds no column, and no row with a threshold above mm is used.
C19_GeneInfo ==
    InfoDone =>
        LET mm == NearestThreshold(rLen, PercentOf(ANI_level))
        IN  /\ Len(gene_info) = Len(gdb)
            /\ \A i \in 1..Len(gdb) :
                   /\ \A c \in DOMAIN gdb[i] : gene_info[i][c] = gdb[i][c]
                   /\ gene_info[i].min_ANI = ANI_level
                   /\ "mm" \notin DOMAIN gene_info[i]
                   /\ JoinedFrom(gene_info[i], cdb, mm)
                   /\ JoinedFrom(gene_info[i], cldb, mm)
                   /\ JoinedFrom(gene_info[i], ldb, mm)

\* read length 50 at similarity 0.99 gives threshold 0: the coverage table
\* has rows above the threshold only, the SNP-density table has a row at
\* threshold 0 and a different one at threshold 2
C19_Witness ==
    /\ InfoDone
    /\ rLen = 50
    /\ Len(cdb) > 0
    /\ \A k \in 1..Len(cdb) : cdb[k].mm > 0
    /\ gene_info[1].coverage = NaN
    /\ \E k \in RowsOf(ldb, gene_info[1].gene, 0), j \in RowsOf(ldb, gene_info[1].gene, 2) :
          /\ gene_info[1].SNPs_per_bp = ldb[k].SNPs_per_bp
          /\ gene_info[1].SNPs_per_bp # ldb[j].SNPs_per_bp

(***************************************************************************)
(* Properties of iterate_splits (checked under SplitSpec).                 *)
(***************************************************************************)
SplitsDone == split_pc = "done"

RECURSIVE SplitLengths(_)
SplitLengths(rows) ==
    IF rows = <<>> THEN 0
    ELSE Head(rows).end - Head(rows).start + 1 + SplitLengths(Tail(rows))

\* C21: for every scaffold length >= 1 and window length >= 1 the splits
\* yielded by iterate_splits are intervals [start, end] with
\* 0 <= start <= end that tile the scaffold: the first starts at 0, each
\* next one starts at the previous end + 1, the last ends at sLen - 1 and
\* the lengths end - start + 1 sum to sLen.
C21_SplitsTile ==
    SplitsDone =>
        /\ Len(Fdb) >= 1
        /\ \A k \in 1..Len(Fdb) : 0 <= Fdb[k].start /\ Fdb[k].start <= Fdb[k].end
        /\ Fdb[1].start = 0
        /\ \A k \in 2..Len(Fdb) : Fdb[k].start = Fdb[k - 1].end + 1
        /\ Fdb[Len(Fdb)].end = sLen - 1
        /\ SplitLengths(Fdb) = sLen

(***************************************************************************)
(* Properties of the termination of the pool (checked under Spec).         *)
(***************************************************************************)
\* the result loop has ended and proc.terminate() is the next statement
AboutToTerminate == pc = "collect" /\ ~(recieved_profiles < Len(cmd_groups))

\* the workers have been terminated
Terminated == processes > 1 /\ pc \in {"concat", "returned", "raised"}

\* C22: when calculate_gene_metrics terminates the worker processes the
\* batch queue is empty, every worker is at its batch dequeue (none is
\* processing a batch or holds an unpublished result) and every published
\* result has reached the aggregator; after the termination every batch
\* that was dequeued has had its result published and received.
C22_TerminationDiscardsNothing ==
    /\ AboutToTerminate =>
           /\ cmd_buffer = <<>>
           /\ cmd_pipe = <<>>
           /\ res_pipe = <<>>
           /\ \A w \in DOMAIN worker :
                  /\ worker[w].pc = "get"
                  /\ res_buffer[w] = <<>>
    /\ Terminated =>
           /\ \A w \in DOMAIN worker : worker[w].pc = "terminated"
           /\ cmd_buffer = <<>>
           /\ cmd_pipe = <<>>
           /\ BagCardinality(dequeued) = Len(cmd_groups)
           /\ BagCardinality(published) = BagCardinality(dequeued)
           /\ received = published

\* both workers have processed a batch and have been terminated
C22_Witness ==
    /\ Terminated
    /\ Len(cmd_groups) >= 3
    /\ \A w \in DOMAIN worker : worker[w].pc = "terminated" /\ worker[w].cmds # <<>>
    /\ \E v, w \in DOMAIN worker : worker[v].cmds # worker[w].cmds

(***************************************************************************)
(* Properties of the batch cuts (checked under SchedSpec).                 *)
(***************************************************************************)
\* the estimated cost accumulated over the first n commands of a batch
RECURSIVE BatchCost(_, _)
BatchCost(batch, n) ==
    IF n = 0 THEN FZero
    ELSE FAdd(BatchCost(batch, n - 1), calc_estimated_runtime(Gdb[batch[n].scaffold]))

\* C23: every batch yielded by iterate_commands other than the last one is
\* not empty, has accumulated estimated cost >= the target and accumulated
\* cost < the target without its last scaffold (no shorter prefix of it
\* reaches the target); a last batch is always yielded, whatever its cost,
\* and no prefix of it reaches the target.
C23_BatchCutAtTarget ==
    Scheduled =>
        /\ Len(cmd_groups) >= 1
        /\ \A i \in 1..(Len(cmd_groups) - 1) :
               LET batch == cmd_groups[i]
               IN  /\ Len(batch) >= 1
                   /\ BnGE(BatchCost(batch, Len(batch)), SECONDS)
                   /\ \A n \in 0..(Len(batch) - 1) : ~BnGE(BatchCost(batch, n), SECONDS)
        /\ LET last == cmd_groups[Len(cmd_groups)]
           IN  \A n \in 1..Len(last) : ~BnGE(BatchCost(last, n), SECONDS)

\* a batch of two scaffolds is cut and the third scaffold is the last batch
C23_Witness ==
    /\ Scheduled
    /\ Len(cmd_groups) = 2
    /\ Len(cmd_groups[1]) = 2
    /\ Len(cmd_groups[2]) = 1
    /\ BnGT(BatchCost(cmd_groups[1], 2), SECONDS)

(***************************************************************************)
(* Independence of the aggregated results from the schedule (checked under *)
(* Spec).  The results are compared with a function of the inputs alone,   *)
(* so that any two runs on the same inputs, whatever their interleaving    *)
(* and their number of workers, aggregate the same collection.             *)
(***************************************************************************)
\* the results of the scaffolds to profile whose profiling does not raise
ExpectedProfiles ==
    {profile_genes(s).value :
        s \in {t \in ToProfile(Gdb, IS_covt_keys) : ~profile_genes(t).raised}}

\* the rows the expected results hold for one table
ExpectedRows(name) == UNION {Range(GP[name]) : GP \in ExpectedProfiles}

ExpectedRowCount(name) ==
    SetSum(ExpectedProfiles, [GP \in ExpectedProfiles |-> Len(GP[name])])

SameRows(table, name) ==
    /\ Range(table) = ExpectedRows(name)
    /\ Len(table) = ExpectedRowCount(name)

\* C24: in multi-process mode, once the result loop has ended, the
\* aggregated results are exactly the non-null results of the scaffolds to
\* profile, each once, and the four final tables hold exactly their rows,
\* for every interleaving of the workers and every number of workers above
\* 1; whether the concatenation raises depends on the inputs alone.
C24_ScheduleIndependent ==
    Terminated =>
        /\ Range(GeneProfiles) = ExpectedProfiles
        /\ Len(GeneProfiles) = Cardinality(ExpectedProfiles)
        /\ pc = "raised" => ExpectedProfiles = {}
        /\ pc = "returned" =>
               /\ ExpectedProfiles # {}
               /\ SameRows(name2result.coverage, "cdb")
               /\ SameRows(name2result.clonality, "cldb")
               /\ SameRows(name2result.SNP_density, "ldb")
               /\ SameRows(name2result.SNP_mutation_types, "sdb")

\* three workers: the results were aggregated in the reverse of the order
\* of the batches
C24_Witness ==
    /\ Terminated
    /\ processes = 3
    /\ pc = "returned"
    /\ Len(cmd_groups) >= 2
    /\ Len(GeneProfiles) = 2
    /\ GeneProfiles[1].scaffold = "S1"
    /\ GeneProfiles[2].scaffold = "A1"
    /\ name2result.coverage # <<>>
    /\ name2result.coverage[1].gene[1] = "S1"

====
